---- MODULE Spec2Model ----
(***************************************************************************)
(* A model of the JSON-RPC 2.0 dispatch engine of elliotchance/jsonrpc:    *)
(* SimpleServer.Handle / HandleWithState / HandleRequest (server.go), the  *)
(* request decoder (request.go), the response constructors and the stats   *)
(* counters (stats.go).                                                    *)
(*                                                                         *)
(* Every caller is a goroutine with a program counter.  One action is one  *)
(* access to the server's shared memory together with the local code that  *)
(* follows it.  The statements `server.x += 1` of server.go are plain      *)
(* (non-atomic) read-modify-writes, so each is a load action followed by a *)
(* store action; the gauge currentActiveRequests is updated with           *)
(* atomic.AddUint64 and is a single action.                                *)
(***************************************************************************)
EXTENDS Integers, Sequences, FiniteSets, TLC

\* ------------------------------------------------------------------ bounds
\* Number of goroutines that may call the server.
NumCallers == 2
\* Number of calls a goroutine issues one after the other.
MaxCalls == 1
\* Longest batch a payload carries.
MaxBatch == 2
\* Number of SetHandler and GetHandler calls issued one after the other.
MaxRegistryCalls == 3
\* The counters are uint64; the model keeps the wrap-around of unsigned
\* arithmetic but scales the word down to WordMod values.
WordMod == 16

\* Longest list of responses that is encoded, and longest array of a text
\* that is decoded.
MaxResponses == 2

Callers == 1..NumCallers

\* --------------------------------------------------------- error taxonomy
Success == 0
ParseError == -32700
InvalidRequest == -32600
MethodNotFound == -32601
InvalidParams == -32602
InternalError == -32603
ServerError == -32000
ServerErrorMin == -32099

\* A server error band without its two ends.
ErrorMessageForCode_OpenBand(code) ==
    CASE code = ParseError -> "Parse error"
      [] code = InvalidRequest -> "Invalid request"
      [] code = MethodNotFound -> "Method not found"
      [] code = InvalidParams -> "Invalid params"
      [] code = InternalError -> "Internal error"
      [] OTHER -> IF code > ServerErrorMin /\ code < ServerError
                  THEN "Server error"
                  ELSE "Unknown error"

ErrorMessageForCode(code) ==
    CASE code = ParseError -> "Parse error"
      [] code = InvalidRequest -> "Invalid request"
      [] code = MethodNotFound -> "Method not found"
      [] code = InvalidParams -> "Invalid params"
      [] code = InternalError -> "Internal error"
      [] OTHER -> IF code >= ServerErrorMin /\ code <= ServerError
                  THEN "Server error"
                  ELSE "Unknown error"

\* ------------------------------------------------------------- JSON values
\* Go's nil: an absent or null JSON member, a nil interface, a nil map entry.
Nil == "nil"
\* A member that is present but is not a JSON string (a number, true, ...),
\* or is absent: the type assertion .(string) fails on it.
NonString == "#nonstring"

\* A JSON text is modelled by what the decoder makes of it.  kind is
\* "malformed" (not JSON), "null", "scalar" (a number, string or boolean),
\* "array" (items are its elements) or "object" (jsonrpc, method and id are
\* its members of those names).
JSON(kind, jsonrpc, method, id, items) ==
    [kind |-> kind, jsonrpc |-> jsonrpc, method |-> method, id |-> id,
     items |-> items]

Malformed == JSON("malformed", NonString, NonString, Nil, <<>>)
NullLiteral == JSON("null", NonString, NonString, Nil, <<>>)
Scalar == JSON("scalar", NonString, NonString, Nil, <<>>)
Object(jsonrpc, method, id) == JSON("object", jsonrpc, method, id, <<>>)
Array(items) == JSON("array", NonString, NonString, Nil, items)
\* The jsonRequest slot of a caller that entered through HandleRequest.
NoJSON == JSON("none", NonString, NonString, Nil, <<>>)

\* json.Unmarshal(jsonRequest, &batchRequest) with batchRequest []interface{}:
\* an array decodes to its elements, null leaves the slice nil without an
\* error, everything else is an error.
UnmarshalSlice(json) ==
    CASE json.kind = "array" -> [err |-> FALSE, slice |-> json.items]
      [] json.kind = "null" -> [err |-> FALSE, slice |-> <<>>]
      [] OTHER -> [err |-> TRUE, slice |-> <<>>]

\* json.Marshal(probableRequest): the text of a decoded element.
Marshal(value) == value

\* json.Unmarshal(jsonRequest, &requestMap) with requestMap
\* map[string]interface{}: an object decodes to its members, null leaves the
\* map nil without an error, everything else is an error and leaves the map
\* nil.  Indexing a nil map yields nil.
UnmarshalMap(json) ==
    CASE json.kind = "object" ->
           [err |-> FALSE, jsonrpc |-> json.jsonrpc, method |-> json.method,
            id |-> json.id]
      [] json.kind = "null" ->
           [err |-> FALSE, jsonrpc |-> NonString, method |-> NonString,
            id |-> Nil]
      [] OTHER ->
           [err |-> TRUE, jsonrpc |-> NonString, method |-> NonString,
            id |-> Nil]

\* --------------------------------------------------------------- responses
\* A *errorResponse or a Response interface value is a sequence of length
\* at most one: <<>> is nil.
NewSuccessResponse(id, result) ==
    [ResponseVersion |-> "2.0", ResponseId |-> id, ResponseResult |-> result,
     ResponseError |-> <<>>]

\* A constructor that keeps the empty message.
NewErrorResponse_KeepsEmptyMessage(id, code, message) ==
    [ResponseVersion |-> "2.0", ResponseId |-> id, ResponseResult |-> Nil,
     ResponseError |-> <<[Code |-> code, Message |-> message]>>]

NewErrorResponse(id, code, message) ==
    [ResponseVersion |-> "2.0", ResponseId |-> id, ResponseResult |-> Nil,
     ResponseError |->
        <<[Code |-> code,
           Message |-> IF message = "" THEN ErrorMessageForCode(code)
                       ELSE message]>>]

Id(response) == response.ResponseId

ErrorCode(response) ==
    IF response.ResponseError = <<>> THEN Success
    ELSE response.ResponseError[1].Code

ErrorMessage(response) ==
    IF response.ResponseError = <<>> THEN ""
    ELSE response.ResponseError[1].Message

\* NewServerErrorResponse(id, err): message is err.Error().
NewServerErrorResponse(id, message) ==
    NewErrorResponse(id, ServerError, message)

\* A Responses value is nil or a slice; its elements are Response values
\* (sequences of length at most one, <<>> being a nil *response).
NilResponses == [isNil |-> TRUE, items |-> <<>>]
ResponsesOf(items) == [isNil |-> FALSE, items |-> items]

\* The text given to NewResponsesFromJSON, by what encoding/json makes of
\* it.  kind is "empty" (no bytes), "malformed", "null", "scalar", "object"
\* or "array"; bracketFirst tells whether its first byte is '['.  An object
\* has the members jsonrpc, id, result and error: a member is Absent, or
\* null (Nil, for error <<>>), or a value; jsonrpc may be NonString.
Absent == "#absent"

Text(kind, bracketFirst, jsonrpc, id, result, error, items) ==
    [kind |-> kind, bracketFirst |-> bracketFirst, jsonrpc |-> jsonrpc,
     id |-> id, result |-> result, error |-> error, items |-> items]

NoText == Text("none", FALSE, Absent, Absent, Absent, <<>>, <<>>)
EmptyText == Text("empty", FALSE, Absent, Absent, Absent, <<>>, <<>>)
MalformedText == Text("malformed", FALSE, Absent, Absent, Absent, <<>>, <<>>)
NullText == Text("null", FALSE, Absent, Absent, Absent, <<>>, <<>>)
ScalarText == Text("scalar", FALSE, Absent, Absent, Absent, <<>>, <<>>)
ObjectText(jsonrpc, id, result, error) ==
    Text("object", FALSE, jsonrpc, id, result, error, <<>>)
\* An array whose first byte is '[', and one that follows white space.
ArrayText(items) == Text("array", TRUE, Absent, Absent, Absent, <<>>, items)
PaddedArrayText(items) ==
    Text("array", FALSE, Absent, Absent, Absent, <<>>, items)

\* json.Marshal of a *response: jsonrpc and id are always written, result
\* and error are omitempty: a nil result and a nil error are left out; a
\* nil *response is written as null.
MarshalResponse(response) ==
    IF response = <<>> THEN NullText
    ELSE ObjectText(response[1].ResponseVersion, response[1].ResponseId,
                    IF response[1].ResponseResult = Nil THEN Absent
                    ELSE response[1].ResponseResult,
                    response[1].ResponseError)

\* response.String(): the JSON encoded value.
ResponseString(response) == MarshalResponse(<<response>>)

\* responses.String(): a nil slice is written as null, any other as the
\* array of its elements.
ResponsesString(responses) ==
    IF responses.isNil THEN NullText
    ELSE ArrayText([k \in 1..Len(responses.items) |->
                      MarshalResponse(responses.items[k])])

\* json.Unmarshal(text, &response) into a *response: an object sets the
\* fields of its members and leaves the others zero, a jsonrpc that is not
\* a string is an error; null leaves the value as it is, without an error;
\* everything else is an error.
UnmarshalResponse(text) ==
    CASE text.kind = "object" ->
           [err |-> text.jsonrpc = NonString,
            response |->
               <<[ResponseVersion |-> IF text.jsonrpc \in {Absent, NonString}
                                      THEN "" ELSE text.jsonrpc,
                  ResponseId |-> IF text.id = Absent THEN Nil ELSE text.id,
                  ResponseResult |-> IF text.result = Absent THEN Nil
                                     ELSE text.result,
                  ResponseError |-> text.error]>>]
      [] text.kind = "null" ->
           [err |-> FALSE,
            response |-> <<[ResponseVersion |-> "", ResponseId |-> Nil,
                            ResponseResult |-> Nil, ResponseError |-> <<>>]>>]
      [] OTHER -> [err |-> TRUE, response |-> <<>>]

\* json.Unmarshal(data, &rawResponses) with rawResponses []*response: each
\* element of an array is decoded as above, a null element stays a nil
\* pointer; null leaves the slice nil; everything else is an error.
UnmarshalResponses(text) ==
    CASE text.kind = "array" ->
           [err |-> \E k \in 1..Len(text.items) :
                       /\ text.items[k].kind # "null"
                       /\ UnmarshalResponse(text.items[k]).err,
            items |-> [k \in 1..Len(text.items) |->
                         IF text.items[k].kind = "null" THEN <<>>
                         ELSE UnmarshalResponse(text.items[k]).response]]
      [] text.kind = "null" -> [err |-> FALSE, items |-> <<>>]
      [] OTHER -> [err |-> TRUE, items |-> <<>>]

\* NewResponsesFromJSON(data) returns (Responses, error), or panics: data[0]
\* is read first, and indexing an empty slice is a run-time panic.  A text
\* that starts with '[' is decoded as a batch, any other as one response.
NewResponsesFromJSON(data) ==
    IF data.kind = "empty"
    THEN [panicked |-> TRUE, err |-> FALSE, responses |-> NilResponses]
    ELSE IF data.bracketFirst
    THEN LET rawResponses == UnmarshalResponses(data) IN
         IF rawResponses.err
         THEN [panicked |-> FALSE, err |-> TRUE, responses |-> NilResponses]
         ELSE [panicked |-> FALSE, err |-> FALSE,
               responses |-> ResponsesOf(rawResponses.items)]
    ELSE LET r == UnmarshalResponse(data) IN
         IF r.err
         THEN [panicked |-> FALSE, err |-> TRUE, responses |-> NilResponses]
         ELSE [panicked |-> FALSE, err |-> FALSE,
               responses |-> ResponsesOf(<<r.response>>)]

\* ---------------------------------------------------------------- requests
NewRequestResponderWithState(version, id, method, params, state) ==
    [RequestVersion |-> version, RequestId |-> id, RequestMethod |-> method,
     RequestParams |-> params, requestState |-> state]

\* A State is a set of <<key, value>> pairs; State{} is the empty bag.
EmptyState == {}

NewRequestResponder(version, id, method, params) ==
    NewRequestResponderWithState(version, id, method, params, EmptyState)

\* request.State(key): the value the bag holds for the key, nil for a key
\* the bag does not hold.
State(request, key) ==
    IF \E pair \in request.requestState : pair[1] = key
    THEN (CHOOSE pair \in request.requestState : pair[1] = key)[2]
    ELSE Nil

\* A Responder that loses the id of its request.
RequestNewErrorResponse_WithoutId(request, code, message) ==
    NewErrorResponse(Nil, code, message)

\* The Responder methods of a request: the response carries request.Id().
RequestNewSuccessResponse(request, result) ==
    NewSuccessResponse(request.RequestId, result)

RequestNewErrorResponse(request, code, message) ==
    NewErrorResponse(request.RequestId, code, message)

\* A decoder that looks at the method before the version.
newRequestResponderFromJSON_MethodFirst(jsonRequest, isPartOfBatch, state) ==
    LET requestMap == UnmarshalMap(jsonRequest) IN
    IF requestMap.err
    THEN LET errCode == IF isPartOfBatch THEN InvalidRequest ELSE ParseError
         IN [request |-> <<>>, id |-> requestMap.id, errCode |-> errCode,
             errMessage |-> ErrorMessageForCode(errCode)]
    ELSE IF requestMap.method = NonString
    THEN [request |-> <<>>, id |-> requestMap.id, errCode |-> InvalidRequest,
          errMessage |-> "Method must be a string."]
    ELSE IF requestMap.jsonrpc = NonString
    THEN [request |-> <<>>, id |-> requestMap.id, errCode |-> InvalidRequest,
          errMessage |-> "Version (jsonrpc) must be a string."]
    ELSE [request |-> <<NewRequestResponderWithState(
                          requestMap.jsonrpc, requestMap.id,
                          requestMap.method, Nil, state)>>,
          id |-> requestMap.id, errCode |-> Success, errMessage |-> ""]

\* newRequestResponderFromJSON returns (request, id, errCode, errMessage);
\* request is <<>> (nil) when errCode is not Success.
newRequestResponderFromJSON(jsonRequest, isPartOfBatch, state) ==
    LET requestMap == UnmarshalMap(jsonRequest) IN
    IF requestMap.err
    THEN LET errCode == IF isPartOfBatch THEN InvalidRequest ELSE ParseError
         IN [request |-> <<>>, id |-> requestMap.id, errCode |-> errCode,
             errMessage |-> ErrorMessageForCode(errCode)]
    ELSE IF requestMap.jsonrpc = NonString
    THEN [request |-> <<>>, id |-> requestMap.id, errCode |-> InvalidRequest,
          errMessage |-> "Version (jsonrpc) must be a string."]
    ELSE IF requestMap.method = NonString
    THEN [request |-> <<>>, id |-> requestMap.id, errCode |-> InvalidRequest,
          errMessage |-> "Method must be a string."]
    ELSE [request |-> <<NewRequestResponderWithState(
                          requestMap.jsonrpc, requestMap.id,
                          requestMap.method, Nil, state)>>,
          id |-> requestMap.id, errCode |-> Success, errMessage |-> ""]

\* An appendResponses that puts the new response in front.
appendResponses_Prepend(responses, response) ==
    IF Id(response) # Nil THEN <<response>> \o responses ELSE responses

\* An appendResponses that keeps the responses of notifications too.
appendResponses_KeepAll(responses, response) ==
    Append(responses, response)

\* An appendResponses that keeps the error response of a notification.
appendResponses_KeepErrors(responses, response) ==
    IF Id(response) # Nil \/ ErrorCode(response) # Success
    THEN Append(responses, response)
    ELSE responses

\* appendResponses: notifications do not receive results.
appendResponses(responses, response) ==
    IF Id(response) # Nil THEN Append(responses, response) ELSE responses

\* ---------------------------------------------------------------- handlers
\* The handlers a server is given.  subtract answers with
\* request.NewSuccessResponse, invalidParams with request.NewErrorResponse
\* and forcePanic panics.  A handler's outcome is the response it returns
\* (a sequence of length one) and whether it panicked instead.
NoHandler == "nil"

subtract(request) ==
    [panicked |-> FALSE,
     response |-> <<RequestNewSuccessResponse(request, "result")>>]

invalidParams(request) ==
    [panicked |-> FALSE,
     response |-> <<RequestNewErrorResponse(request, InvalidParams, "")>>]

forcePanic(request) ==
    [panicked |-> TRUE, response |-> <<>>]

\* handlerWithState answers with the value its request's state bag holds for
\* "foo".
handlerWithState(request) ==
    [panicked |-> FALSE,
     response |->
        <<RequestNewSuccessResponse(request, State(request, "foo"))>>]

\* A handler that answers with request.NewErrorResponse and passes Success
\* as the code.
errorWithSuccessCode(request) ==
    [panicked |-> FALSE,
     response |-> <<RequestNewErrorResponse(request, Success, "bar")>>]

\* A handler that panics with an error value, and one that panics with nil.
panicWithError(request) ==
    [panicked |-> TRUE, response |-> <<>>]

panicWithNil(request) ==
    [panicked |-> TRUE, response |-> <<>>]

\* A handler that returns no Response at all: return nil.
returnsNil(request) ==
    [panicked |-> FALSE, response |-> <<>>]

\* Handlers that answer with the package-level constructor instead of the
\* Responder of the request: one with a nil id, one with an id of its own.
answersWithNilId(request) ==
    [panicked |-> FALSE, response |-> <<NewSuccessResponse(Nil, "result")>>]

answersWithOtherId(request) ==
    [panicked |-> FALSE, response |-> <<NewSuccessResponse("id9", "result")>>]

\* The value the handler passes to panic: forcePanic panics with "uh-oh!".
PanicValue(handler) ==
    CASE handler = "panicWithError" -> "secret"
      [] handler = "panicWithNil" -> Nil
      [] OTHER -> "uh-oh!"

\* handler(request) for the RequestHandler value named handler.
CallHandler(handler, request) ==
    CASE handler = "subtract" -> subtract(request)
      [] handler = "invalidParams" -> invalidParams(request)
      [] handler = "handlerWithState" -> handlerWithState(request)
      [] handler = "errorWithSuccessCode" -> errorWithSuccessCode(request)
      [] handler = "panicWithError" -> panicWithError(request)
      [] handler = "panicWithNil" -> panicWithNil(request)
      [] handler = "returnsNil" -> returnsNil(request)
      [] handler = "answersWithNilId" -> answersWithNilId(request)
      [] handler = "answersWithOtherId" -> answersWithOtherId(request)
      [] OTHER -> forcePanic(request)

\* The method names a payload may carry; foobar is never registered.
MethodNames == {"subtract", "fail", "panic", "foobar"}

\* newTestServer: NewSimpleServer followed by SetHandler for each method.
newTestServer ==
    [m \in MethodNames |->
        CASE m = "subtract" -> "subtract"
          [] m = "fail" -> "invalidParams"
          [] m = "panic" -> "forcePanic"
          [] OTHER -> NoHandler]

\* The SetHandler calls of newTestServer, in order (method name, handler).
newTestServerCalls ==
    <<<<"subtract", "subtract">>, <<"fail", "invalidParams">>,
      <<"panic", "forcePanic">>>>

\* The RequestHandler values a caller may register; nil is one of them.
Handlers == {"subtract", "invalidParams", "forcePanic", NoHandler}

\* ------------------------------------------------------------------ inputs
Ids == {"id1", "id2"}
Versions == {"2.0", "1.0"}

\* The objects a payload may be: every combination of version, method and
\* id that takes a different path through the decoder and the dispatcher.
Objects ==
    {Object(v, m, i) : v \in {"2.0"}, m \in MethodNames \cup {NonString},
                       i \in Ids \cup {Nil}}
    \cup {Object(v, m, i) : v \in {"1.0"}, m \in {"subtract", "foobar"},
                            i \in Ids \cup {Nil}}
    \cup {Object(NonString, "subtract", i) : i \in Ids \cup {Nil}}

\* The elements of the batches.
BatchItems ==
    {Object("2.0", "subtract", Nil), Object("2.0", "subtract", "id1"),
     Object("2.0", "subtract", "id2"), Object("2.0", "fail", Nil),
     Object("2.0", "panic", "id2"), Object("2.0", "foobar", "id1"),
     Object(NonString, "subtract", "id1"), Scalar, NullLiteral}

Batches == UNION {[1..n -> BatchItems] : n \in 0..MaxBatch}

\* The payloads given to Handle and HandleWithState.
Payloads ==
    {Malformed, NullLiteral, Scalar} \cup Objects
    \cup {Array(items) : items \in Batches}

\* The payloads given to HandleWithState together with a state bag: the bag
\* takes no part in the decoding or the dispatch.
StatefulPayloads ==
    {Object("2.0", "subtract", "id1"), Object("2.0", "fail", Nil),
     Array(<<Object("2.0", "subtract", Nil), Object("2.0", "panic", "id2")>>)}

\* The requests given to HandleRequest directly.
Requests ==
    {NewRequestResponder(v, i, m, Nil) :
        v \in Versions, i \in Ids \cup {Nil}, m \in MethodNames}

\* The payloads and requests of the callers that run concurrently: one for
\* each path through the counters.
ConcurrentPayloads ==
    {Object("2.0", "subtract", "id1"), Scalar, Array(<<>>)}

ConcurrentRequests ==
    {NewRequestResponder("2.0", Nil, "panic", Nil)}

\* The registrations and lookups of the callers that run concurrently: the
\* method of the concurrent payload is bound to another handler.
ConcurrentMethodNames == {"subtract"}
ConcurrentHandlers == {"invalidParams"}

\* The handlers a caller registers after construction, the method it binds
\* them to, and the payloads and requests it then has dispatched: requests
\* and notifications of that method and objects whose jsonrpc or method is
\* not a string, alone and in batches, a payload that is not an object, a
\* wrong version and the empty batch.
LateHandlers == {"handlerWithState", "errorWithSuccessCode"}
LateMethodNames == {"subtract"}

LateItems ==
    {Object("2.0", "subtract", "id1"), Object("2.0", "subtract", Nil),
     Object("2.0", NonString, "id1"), Object(NonString, NonString, Nil),
     Object(NonString, NonString, "id2")}

LatePayloads ==
    {Scalar, Array(<<>>), Object("1.0", "subtract", "id1")} \cup LateItems
    \cup {Array(items) :
             items \in UNION {[1..n -> LateItems] : n \in 1..MaxBatch}}

\* The requests carry a bag of their own: the empty one, one that holds
\* "foo" and one that does not.
LateRequests ==
    {NewRequestResponderWithState("2.0", i, "subtract", Nil, state) :
        i \in {"id1", Nil},
        state \in {EmptyState, {<<"foo", "bar">>}, {<<"baz", "bar">>}}}

\* The codes given to ErrorMessageForCode and to the constructors of error
\* responses: the five reserved codes, the server error band with what lies
\* on either side of it, and the codes around zero.
Codes ==
    {ParseError, InvalidRequest, MethodNotFound, InvalidParams,
     InternalError}
    \cup ((ServerErrorMin - 2)..(ServerError + 2))
    \cup (-1..1)

\* The messages given to the constructors of error responses; the empty
\* one asks for the message of the code.
Messages == {"", "bar"}

\* The results given to NewSuccessResponse; a result may be nil.
Results == {Nil, "result"}

\* The responses that are put into lists before the lists are encoded.
ListedResponses ==
    {NewSuccessResponse(id, result) : id \in {Nil, "id1"}, result \in Results}
    \cup {NewErrorResponse(id, code, message) :
            id \in {Nil, "id1"}, code \in {InvalidParams, ServerError},
            message \in Messages}

\* The Responses values that are encoded: the nil slice and every slice of
\* up to MaxResponses listed responses.
ResponsesValues ==
    {NilResponses}
    \cup {ResponsesOf([k \in 1..Len(items) |-> <<items[k]>>]) :
            items \in UNION {[1..n -> ListedResponses] :
                               n \in 0..MaxResponses}}

\* The objects a text given to NewResponsesFromJSON may be or may hold:
\* every combination of present, null and absent members.
ObjectTexts ==
    {ObjectText(jsonrpc, id, result, error) :
        jsonrpc \in {"2.0", Absent, NonString},
        id \in {"id1", Nil, Absent},
        result \in {"result", Nil, Absent},
        error \in {<<>>, <<[Code |-> InternalError, Message |-> "bar"]>>,
                   <<[Code |-> Success, Message |-> "bar"]>>}}

\* The elements of the arrays.
ArrayItemTexts ==
    {ObjectText("2.0", "id1", "result", <<>>),
     ObjectText("2.0", "id1", Absent,
                <<[Code |-> InternalError, Message |-> "bar"]>>),
     ObjectText(NonString, "id1", "result", <<>>),
     NullText, ScalarText}

\* The texts given to NewResponsesFromJSON.
Texts ==
    {EmptyText, MalformedText, NullText, ScalarText,
     Text("malformed", TRUE, Absent, Absent, Absent, <<>>, <<>>)}
    \cup ObjectTexts
    \cup {ArrayText(items) :
            items \in UNION {[1..n -> ArrayItemTexts] :
                               n \in 0..MaxResponses}}
    \cup {PaddedArrayText(<<item>>) : item \in ArrayItemTexts}

\* The handlers that panic with other values, return nil or answer with an
\* id of their own, registered after construction, and the payloads and
\* requests then dispatched to them: a request and a notification, alone
\* and in batches, a payload that is not an object and the empty batch.
FaultyHandlers ==
    {"panicWithError", "panicWithNil", "returnsNil", "answersWithNilId",
     "answersWithOtherId"}

FaultItems ==
    {Object("2.0", "subtract", "id1"), Object("2.0", "subtract", Nil)}

FaultPayloads ==
    {Scalar, Array(<<>>)} \cup FaultItems
    \cup {Array(items) :
            items \in UNION {[1..n -> FaultItems] : n \in 1..MaxBatch}}

FaultRequests ==
    {NewRequestResponder("2.0", i, "subtract", Nil) : i \in {"id1", Nil}}

\* ------------------------------------------------------------------- state
VARIABLES
    requestHandlers,            \* SimpleServer.requestHandlers
    totalPayloads,              \* SimpleServer.totalPayloads
    totalRequests,              \* SimpleServer.totalRequests
    totalSuccessResponses,      \* SimpleServer.totalSuccessResponses
    totalErrorResponses,        \* SimpleServer.totalErrorResponses
    totalSuccessNotifications,  \* SimpleServer.totalSuccessNotifications
    totalErrorNotifications,    \* SimpleServer.totalErrorNotifications
    currentActiveRequests,      \* SimpleServer.currentActiveRequests
    pc,                         \* where each caller is in the code
    frame,                      \* the locals of each caller
    calls,                      \* number of calls started so far
    registrations,              \* the SetHandler calls so far, in order
    before,                     \* the stats when the observed call started
    tally                       \* what indivisible updates would have counted

vars ==
    <<requestHandlers, totalPayloads, totalRequests, totalSuccessResponses,
      totalErrorResponses, totalSuccessNotifications,
      totalErrorNotifications, currentActiveRequests, pc, frame, calls,
      registrations, before, tally>>

\* The counters and the gauge as one record (a caller's view of the stats).
Stats ==
    [totalPayloads |-> totalPayloads, totalRequests |-> totalRequests,
     totalSuccessResponses |-> totalSuccessResponses,
     totalErrorResponses |-> totalErrorResponses,
     totalSuccessNotifications |-> totalSuccessNotifications,
     totalErrorNotifications |-> totalErrorNotifications,
     currentActiveRequests |-> currentActiveRequests]

ZeroStats ==
    [totalPayloads |-> 0, totalRequests |-> 0, totalSuccessResponses |-> 0,
     totalErrorResponses |-> 0, totalSuccessNotifications |-> 0,
     totalErrorNotifications |-> 0, currentActiveRequests |-> 0]

ZeroTally ==
    [totalPayloads |-> 0, totalRequests |-> 0, totalSuccessResponses |-> 0,
     totalErrorResponses |-> 0, totalSuccessNotifications |-> 0,
     totalErrorNotifications |-> 0]

\* Unsigned arithmetic on a counter.
Inc(x) == (x + 1) % WordMod
Dec(x) == (x + (WordMod - 1)) % WordMod

\* The locals of a caller that is not in a call.
IdleFrame ==
    [api |-> "none", methodName |-> "", jsonRequest |-> NoJSON,
     state |-> EmptyState,
     isBatch |-> FALSE, batchRequest |-> <<>>, i |-> 0,
     rawMessage |-> NoJSON, isPartOfBatch |-> FALSE,
     request |-> <<>>, id |-> Nil, errCode |-> Success, errMessage |-> "",
     handler |-> NoHandler, response |-> <<>>, hrResponses |-> <<>>,
     responses |-> <<>>, reg |-> 0, track |-> "none", panicking |-> FALSE,
     ret |-> <<>>, handled |-> <<>>,
     panicValue |-> Nil,
     code |-> Success, message |-> "", result |-> Nil,
     built |-> NilResponses, data |-> NoText,
     decoded |-> [panicked |-> FALSE, err |-> FALSE,
                  responses |-> NilResponses]]

\* NewSimpleServer and newTestServer: all counters are zero.
Init ==
    /\ requestHandlers = newTestServer
    /\ totalPayloads = 0
    /\ totalRequests = 0
    /\ totalSuccessResponses = 0
    /\ totalErrorResponses = 0
    /\ totalSuccessNotifications = 0
    /\ totalErrorNotifications = 0
    /\ currentActiveRequests = 0
    /\ pc = [t \in Callers |-> "idle"]
    /\ frame = [t \in Callers |-> IdleFrame]
    /\ calls = 0
    /\ registrations = newTestServerCalls
    /\ before = ZeroStats
    /\ tally = ZeroTally

\* ------------------------------------------------------------- entry points
\* What a caller's step leaves alone.
UnchangedServer ==
    UNCHANGED <<requestHandlers, registrations,
                totalPayloads, totalRequests,
                totalSuccessResponses, totalErrorResponses,
                totalSuccessNotifications, totalErrorNotifications,
                currentActiveRequests, tally>>

\* The state bags given to HandleWithState.
StateBags == {{<<"foo", "bar">>}}

\* A caller starts server.Handle(jsonRequest), which is
\* server.HandleWithState(jsonRequest, State{}).
Handle(t, payloads) ==
    /\ pc[t] = "idle"
    /\ \E jsonRequest \in payloads :
          frame' = [frame EXCEPT ![t] =
                      [IdleFrame EXCEPT !.api = "Handle",
                                        !.jsonRequest = jsonRequest,
                                        !.state = EmptyState]]
    /\ pc' = [pc EXCEPT ![t] = "hws_load"]
    /\ calls' = calls + 1
    /\ UnchangedServer

\* A caller starts server.HandleWithState(jsonRequest, state).
HandleWithState(t, payloads) ==
    /\ pc[t] = "idle"
    /\ \E jsonRequest \in payloads, state \in StateBags :
          frame' = [frame EXCEPT ![t] =
                      [IdleFrame EXCEPT !.api = "HandleWithState",
                                        !.jsonRequest = jsonRequest,
                                        !.state = state]]
    /\ pc' = [pc EXCEPT ![t] = "hws_load"]
    /\ calls' = calls + 1
    /\ UnchangedServer

\* A caller starts server.HandleRequest(request) directly; the deferred
\* function captures request.Id().
HandleRequest(t, requests) ==
    /\ pc[t] = "idle"
    /\ \E request \in requests :
          frame' = [frame EXCEPT ![t] =
                      [IdleFrame EXCEPT !.api = "HandleRequest",
                                        !.request = <<request>>,
                                        !.id = request.RequestId]]
    /\ pc' = [pc EXCEPT ![t] = "hr_load"]
    /\ calls' = calls + 1
    /\ UnchangedServer

\* --------------------------------------------------------- handler registry
\* requestHandlers is a plain Go map, read and written without a lock.  A
\* caller at "set_handler" is about to execute the map assignment of
\* SetHandler; a caller at "get_handler" or "hr_lookup" the map read of
\* GetHandler or of HandleRequest.
Writers(t) == {u \in Callers \ {t} : pc[u] = "set_handler"}

\* What the read server.requestHandlers[methodName] of caller t may yield.
\* With no write in progress it is the bound handler.  A read that overlaps
\* a map assignment is a data race: it may see the map before or after the
\* assignment, or miss the key while the buckets are being written (the Go
\* runtime may also abort the process, which ends the behaviour).
RegistryRead(t, methodName) ==
    {requestHandlers[methodName]}
    \cup (IF Writers(t) = {} THEN {} ELSE {NoHandler})
    \cup {frame[u].handler :
            u \in {w \in Writers(t) : frame[w].methodName = methodName}}

\* A caller starts server.SetHandler(methodName, handler).
SetHandler(t, methodNames, handlers) ==
    /\ pc[t] = "idle"
    /\ \E methodName \in methodNames, handler \in handlers :
          frame' = [frame EXCEPT ![t] =
                      [IdleFrame EXCEPT !.api = "SetHandler",
                                        !.methodName = methodName,
                                        !.handler = handler]]
    /\ pc' = [pc EXCEPT ![t] = "set_handler"]
    /\ calls' = calls + 1
    /\ UnchangedServer

\* A SetHandler that keeps the handler a name is already bound to.
SetHandler_Store_KeepsBound(t) ==
    LET f == frame[t] IN
    /\ pc[t] = "set_handler"
    /\ requestHandlers' =
          IF requestHandlers[f.methodName] # NoHandler THEN requestHandlers
          ELSE [requestHandlers EXCEPT ![f.methodName] = f.handler]
    /\ registrations' = Append(registrations, <<f.methodName, f.handler>>)
    /\ pc' = [pc EXCEPT ![t] = "returned"]
    /\ UNCHANGED <<totalPayloads, totalRequests, totalSuccessResponses,
                   totalErrorResponses, totalSuccessNotifications,
                   totalErrorNotifications, currentActiveRequests, frame,
                   calls, before, tally>>

\* server.requestHandlers[methodName] = handler (server.go:35).
SetHandler_Store(t) ==
    LET f == frame[t] IN
    /\ pc[t] = "set_handler"
    /\ requestHandlers' = [requestHandlers EXCEPT ![f.methodName] = f.handler]
    /\ registrations' = Append(registrations, <<f.methodName, f.handler>>)
    /\ pc' = [pc EXCEPT ![t] = "returned"]
    /\ UNCHANGED <<totalPayloads, totalRequests, totalSuccessResponses,
                   totalErrorResponses, totalSuccessNotifications,
                   totalErrorNotifications, currentActiveRequests, frame,
                   calls, before, tally>>

\* A caller starts server.GetHandler(methodName).
GetHandler(t, methodNames) ==
    /\ pc[t] = "idle"
    /\ \E methodName \in methodNames :
          frame' = [frame EXCEPT ![t] =
                      [IdleFrame EXCEPT !.api = "GetHandler",
                                        !.methodName = methodName]]
    /\ pc' = [pc EXCEPT ![t] = "get_handler"]
    /\ calls' = calls + 1
    /\ UnchangedServer

\* return server.requestHandlers[methodName] (server.go:39).
GetHandler_Load(t) ==
    /\ pc[t] = "get_handler"
    /\ \E handler \in RegistryRead(t, frame[t].methodName) :
          frame' = [frame EXCEPT ![t].handler = handler]
    /\ pc' = [pc EXCEPT ![t] = "returned"]
    /\ UNCHANGED <<calls, before>>
    /\ UnchangedServer

\* ---------------------------------------------------------- HandleWithState
RECURSIVE appendAll(_, _)
\* for _, response := range results { appendResponses(&responses, response) }
appendAll(responses, results) ==
    IF results = <<>> THEN responses
    ELSE appendAll(appendResponses(responses, Head(results)), Tail(results))

\* A batch loop that stops at the first element answered with an error.
afterHandleSingle_AbortsOnError(f, results) ==
    LET responses == appendAll(f.responses, results) IN
    IF /\ f.isBatch /\ f.i < Len(f.batchRequest)
       /\ \A k \in 1..Len(results) : ErrorCode(results[k]) = Success
    THEN [pc |-> "hs_parse",
          frame |-> [f EXCEPT !.responses = responses,
                              !.i = f.i + 1,
                              !.rawMessage = Marshal(f.batchRequest[f.i + 1]),
                              !.request = <<>>, !.id = Nil,
                              !.errCode = Success, !.errMessage = "",
                              !.handler = NoHandler, !.response = <<>>,
                              !.hrResponses = <<>>, !.track = "none"]]
    ELSE [pc |-> "returned",
          frame |-> [f EXCEPT !.responses = responses, !.ret = responses]]

\* handleSingle has returned results to HandleWithState: collect them, then
\* go on with the next element of the batch or return.
afterHandleSingle(f, results) ==
    LET responses == appendAll(f.responses, results) IN
    IF f.isBatch /\ f.i < Len(f.batchRequest)
    THEN [pc |-> "hs_parse",
          frame |-> [f EXCEPT !.responses = responses,
                              !.i = f.i + 1,
                              !.rawMessage = Marshal(f.batchRequest[f.i + 1]),
                              !.request = <<>>, !.id = Nil,
                              !.errCode = Success, !.errMessage = "",
                              !.handler = NoHandler, !.response = <<>>,
                              !.hrResponses = <<>>, !.track = "none"]]
    ELSE [pc |-> "returned",
          frame |-> [f EXCEPT !.responses = responses, !.ret = responses]]

\* server.totalPayloads += 1 (server.go:183), the read.
HWS_LoadTotalPayloads(t) ==
    /\ pc[t] = "hws_load"
    /\ frame' = [frame EXCEPT ![t].reg = totalPayloads]
    /\ pc' = [pc EXCEPT ![t] = "hws_store"]
    /\ UNCHANGED <<calls, before>>
    /\ UnchangedServer

\* server.totalPayloads += 1 (server.go:183), the write; then the payload is
\* decoded as a batch and the first element, or the lone payload, is given
\* to handleSingle.
HWS_StoreTotalPayloads(t) ==
    LET f == frame[t]
        batch == UnmarshalSlice(f.jsonRequest)
    IN
    /\ pc[t] = "hws_store"
    /\ totalPayloads' = Inc(f.reg)
    /\ tally' = [tally EXCEPT !.totalPayloads = @ + 1]
    /\ IF ~batch.err /\ Len(batch.slice) = 0
       THEN /\ pc' = [pc EXCEPT ![t] = "empty_load"]
            /\ frame' = [frame EXCEPT ![t].reg = 0, ![t].isBatch = TRUE]
       ELSE IF ~batch.err
       THEN /\ pc' = [pc EXCEPT ![t] = "hs_parse"]
            /\ frame' = [frame EXCEPT ![t].reg = 0,
                                      ![t].isBatch = TRUE,
                                      ![t].batchRequest = batch.slice,
                                      ![t].i = 1,
                                      ![t].isPartOfBatch = TRUE,
                                      ![t].rawMessage = Marshal(batch.slice[1])]
       ELSE /\ pc' = [pc EXCEPT ![t] = "hs_parse"]
            /\ frame' = [frame EXCEPT ![t].reg = 0,
                                      ![t].isPartOfBatch = FALSE,
                                      ![t].rawMessage = f.jsonRequest]
    /\ UNCHANGED <<requestHandlers, registrations,
                   totalRequests, totalSuccessResponses,
                   totalErrorResponses, totalSuccessNotifications,
                   totalErrorNotifications, currentActiveRequests,
                   calls, before>>

\* The empty batch: server.totalErrorResponses += 1 (server.go:195), the read.
EmptyBatch_LoadTotalErrorResponses(t) ==
    /\ pc[t] = "empty_load"
    /\ frame' = [frame EXCEPT ![t].reg = totalErrorResponses]
    /\ pc' = [pc EXCEPT ![t] = "empty_store"]
    /\ UNCHANGED <<calls, before>>
    /\ UnchangedServer

\* An empty batch whose error response is collected with appendResponses,
\* like the error responses of handleSingle.
EmptyBatch_StoreTotalErrorResponses_ThroughAppend(t) ==
    /\ pc[t] = "empty_store"
    /\ totalErrorResponses' = Inc(frame[t].reg)
    /\ tally' = [tally EXCEPT !.totalErrorResponses = @ + 1]
    /\ frame' = [frame EXCEPT
                   ![t].reg = 0,
                   ![t].ret = appendResponses(<<>>,
                                 NewErrorResponse(Nil, InvalidRequest,
                                                  "Batch is empty."))]
    /\ pc' = [pc EXCEPT ![t] = "returned"]
    /\ UNCHANGED <<requestHandlers, registrations,
                   totalPayloads, totalRequests,
                   totalSuccessResponses, totalSuccessNotifications,
                   totalErrorNotifications, currentActiveRequests,
                   calls, before>>

\* An empty batch that is answered without being counted.
EmptyBatch_StoreTotalErrorResponses_Uncounted(t) ==
    /\ pc[t] = "empty_store"
    /\ totalErrorResponses' = totalErrorResponses
    /\ tally' = tally
    /\ frame' = [frame EXCEPT
                   ![t].reg = 0,
                   ![t].ret = <<NewErrorResponse(Nil, InvalidRequest,
                                                 "Batch is empty.")>>]
    /\ pc' = [pc EXCEPT ![t] = "returned"]
    /\ UNCHANGED <<requestHandlers, registrations,
                   totalPayloads, totalRequests,
                   totalSuccessResponses, totalSuccessNotifications,
                   totalErrorNotifications, currentActiveRequests,
                   calls, before>>

\* The empty batch: the write, then
\* return Responses{NewErrorResponse(nil, InvalidRequest, "Batch is empty.")}.
EmptyBatch_StoreTotalErrorResponses(t) ==
    /\ pc[t] = "empty_store"
    /\ totalErrorResponses' = Inc(frame[t].reg)
    /\ tally' = [tally EXCEPT !.totalErrorResponses = @ + 1]
    /\ frame' = [frame EXCEPT
                   ![t].reg = 0,
                   ![t].ret = <<NewErrorResponse(Nil, InvalidRequest,
                                                 "Batch is empty.")>>]
    /\ pc' = [pc EXCEPT ![t] = "returned"]
    /\ UNCHANGED <<requestHandlers, registrations,
                   totalPayloads, totalRequests,
                   totalSuccessResponses, totalSuccessNotifications,
                   totalErrorNotifications, currentActiveRequests,
                   calls, before>>

\* ------------------------------------------------------------- handleSingle
\* A handleSingle that gives the state bag to a lone payload only.
handleSingle_Parse_StateForLoneOnly(t) ==
    LET f == frame[t]
        r == newRequestResponderFromJSON(
                f.rawMessage, f.isPartOfBatch,
                IF f.isPartOfBatch THEN EmptyState ELSE f.state)
    IN
    /\ pc[t] = "hs_parse"
    /\ frame' = [frame EXCEPT ![t].request = r.request,
                              ![t].id = r.id,
                              ![t].errCode = r.errCode,
                              ![t].errMessage = r.errMessage]
    /\ pc' = [pc EXCEPT ![t] = IF r.errCode # Success THEN "hs_err_load"
                                ELSE "hs_dec_load"]
    /\ UNCHANGED <<calls, before>>
    /\ UnchangedServer

\* request, id, errCode, errMessage := newRequestResponderFromJSON(...)
\* (server.go:130-133).
handleSingle_Parse(t) ==
    LET f == frame[t]
        r == newRequestResponderFromJSON(f.rawMessage, f.isPartOfBatch,
                                         f.state)
    IN
    /\ pc[t] = "hs_parse"
    /\ frame' = [frame EXCEPT ![t].request = r.request,
                              ![t].id = r.id,
                              ![t].errCode = r.errCode,
                              ![t].errMessage = r.errMessage]
    /\ pc' = [pc EXCEPT ![t] = IF r.errCode # Success THEN "hs_err_load"
                                ELSE "hs_dec_load"]
    /\ UNCHANGED <<calls, before>>
    /\ UnchangedServer

\* server.totalErrorResponses += 1 (server.go:134), the read.
handleSingle_LoadTotalErrorResponses(t) ==
    /\ pc[t] = "hs_err_load"
    /\ frame' = [frame EXCEPT ![t].reg = totalErrorResponses]
    /\ pc' = [pc EXCEPT ![t] = "hs_err_store"]
    /\ UNCHANGED <<calls, before>>
    /\ UnchangedServer

\* A handleSingle that tracks a rejected element by its id, the way the
\* deferred function of HandleRequest tracks a response.
handleSingle_StoreTotalErrorResponses_ById(t) ==
    LET f == frame[t]
        responses == appendResponses(<<>>,
                        NewErrorResponse(f.id, f.errCode, f.errMessage))
        next == afterHandleSingle([f EXCEPT !.reg = 0], responses)
    IN
    /\ pc[t] = "hs_err_store"
    /\ totalErrorResponses' =
          IF f.id = Nil THEN totalErrorResponses ELSE Inc(f.reg)
    /\ totalErrorNotifications' =
          IF f.id = Nil THEN Inc(totalErrorNotifications)
          ELSE totalErrorNotifications
    /\ tally' = tally
    /\ frame' = [frame EXCEPT ![t] = next.frame]
    /\ pc' = [pc EXCEPT ![t] = next.pc]
    /\ UNCHANGED <<requestHandlers, registrations,
                   totalPayloads, totalRequests,
                   totalSuccessResponses, totalSuccessNotifications,
                   currentActiveRequests, calls, before>>

\* server.totalErrorResponses += 1 (server.go:134), the write; then the
\* error response goes through appendResponses and handleSingle returns
\* (server.go:136-138).
handleSingle_StoreTotalErrorResponses(t) ==
    LET f == frame[t]
        responses == appendResponses(<<>>,
                        NewErrorResponse(f.id, f.errCode, f.errMessage))
        next == afterHandleSingle([f EXCEPT !.reg = 0], responses)
    IN
    /\ pc[t] = "hs_err_store"
    /\ totalErrorResponses' = Inc(f.reg)
    /\ tally' = [tally EXCEPT !.totalErrorResponses = @ + 1]
    /\ frame' = [frame EXCEPT ![t] = next.frame]
    /\ pc' = [pc EXCEPT ![t] = next.pc]
    /\ UNCHANGED <<requestHandlers, registrations,
                   totalPayloads, totalRequests,
                   totalSuccessResponses, totalSuccessNotifications,
                   totalErrorNotifications, currentActiveRequests,
                   calls, before>>

\* server.totalPayloads -= 1 (server.go:144), the read.
handleSingle_LoadTotalPayloads(t) ==
    /\ pc[t] = "hs_dec_load"
    /\ frame' = [frame EXCEPT ![t].reg = totalPayloads]
    /\ pc' = [pc EXCEPT ![t] = "hs_dec_store"]
    /\ UNCHANGED <<calls, before>>
    /\ UnchangedServer

\* A handleSingle that does not correct totalPayloads before HandleRequest.
handleSingle_StoreTotalPayloads_NoCorrection(t) ==
    /\ pc[t] = "hs_dec_store"
    /\ totalPayloads' = frame[t].reg
    /\ tally' = tally
    /\ frame' = [frame EXCEPT ![t].reg = 0]
    /\ pc' = [pc EXCEPT ![t] = "hr_load"]
    /\ UNCHANGED <<requestHandlers, registrations,
                   totalRequests, totalSuccessResponses,
                   totalErrorResponses, totalSuccessNotifications,
                   totalErrorNotifications, currentActiveRequests,
                   calls, before>>

\* server.totalPayloads -= 1 (server.go:144), the write; then
\* server.HandleRequest(request) is called.
handleSingle_StoreTotalPayloads(t) ==
    /\ pc[t] = "hs_dec_store"
    /\ totalPayloads' = Dec(frame[t].reg)
    /\ tally' = [tally EXCEPT !.totalPayloads = @ - 1]
    /\ frame' = [frame EXCEPT ![t].reg = 0]
    /\ pc' = [pc EXCEPT ![t] = "hr_load"]
    /\ UNCHANGED <<requestHandlers, registrations,
                   totalRequests, totalSuccessResponses,
                   totalErrorResponses, totalSuccessNotifications,
                   totalErrorNotifications, currentActiveRequests,
                   calls, before>>

\* ------------------------------------------------------------ HandleRequest
\* A classification that forgets the notification counters.
trackedCounter_IgnoreId(id, response) ==
    IF ErrorCode(response) = Success THEN "totalSuccessResponses"
    ELSE "totalErrorResponses"

\* A classification that looks at the id of successes only: every error is
\* counted as an error response.
trackedCounter_ErrorsAsResponses(id, response) ==
    IF ErrorCode(response) # Success THEN "totalErrorResponses"
    ELSE IF id = Nil THEN "totalSuccessNotifications"
    ELSE "totalSuccessResponses"

\* The counter the deferred function of HandleRequest updates for a request
\* with this id and this response (server.go:86-98).
trackedCounter(id, response) ==
    IF id = Nil
    THEN IF ErrorCode(response) = Success THEN "totalSuccessNotifications"
         ELSE "totalErrorNotifications"
    ELSE IF ErrorCode(response) = Success THEN "totalSuccessResponses"
         ELSE "totalErrorResponses"

\* What recover() may return in the deferred function: nil when nothing
\* panicked, the value given to panic when that value is not nil.  After
\* panic(nil) it is nil in a build with the semantics before Go 1.21 (the
\* default without a go.mod, or with GODEBUG=panicnil=1) and a
\* *runtime.PanicNilError in any other build; the panic is stopped either
\* way.
Recover(f) ==
    IF ~f.panicking THEN {Nil}
    ELSE IF f.panicValue # Nil THEN {f.panicValue}
    ELSE {Nil, "PanicNilError"}

\* A deferred function that does not recover.
recovered_WithoutRecover(f, r) ==
    f.response

\* if r := recover(); r != nil { response = request.NewErrorResponse(...) }
\* (server.go:81-83): the response the deferred function goes on with.
recovered(f, r) ==
    IF r # Nil
    THEN <<RequestNewErrorResponse(f.request[1], ServerError, "")>>
    ELSE f.response

\* HandleRequest returns responses: to the caller, or to handleSingle and
\* from there to HandleWithState.
afterHandleRequest(f, responses) ==
    IF f.api = "HandleRequest"
    THEN [pc |-> "returned", frame |-> [f EXCEPT !.ret = responses]]
    ELSE afterHandleSingle(f, responses)

\* server.totalPayloads += 1 (server.go:74), the read.
HandleRequest_LoadTotalPayloads(t) ==
    /\ pc[t] = "hr_load"
    /\ frame' = [frame EXCEPT ![t].reg = totalPayloads]
    /\ pc' = [pc EXCEPT ![t] = "hr_store"]
    /\ UNCHANGED <<calls, before>>
    /\ UnchangedServer

\* A HandleRequest that goes to the handler lookup without checking the
\* version.
HandleRequest_StoreTotalPayloads_NoVersionCheck(t) ==
    /\ pc[t] = "hr_store"
    /\ totalPayloads' = Inc(frame[t].reg)
    /\ tally' = [tally EXCEPT !.totalPayloads = @ + 1]
    /\ frame' = [frame EXCEPT ![t].reg = 0,
                              ![t].id = frame[t].request[1].RequestId,
                              ![t].hrResponses = <<>>]
    /\ pc' = [pc EXCEPT ![t] = "hr_lookup"]
    /\ UNCHANGED <<requestHandlers, registrations,
                   totalRequests, totalSuccessResponses,
                   totalErrorResponses, totalSuccessNotifications,
                   totalErrorNotifications, currentActiveRequests,
                   calls, before>>

\* server.totalPayloads += 1 (server.go:74), the write; then the deferred
\* function is registered with request.Id() and the version is checked
\* (server.go:76-107).
HandleRequest_StoreTotalPayloads(t) ==
    LET f == frame[t]
        request == f.request[1]
    IN
    /\ pc[t] = "hr_store"
    /\ totalPayloads' = Inc(f.reg)
    /\ tally' = [tally EXCEPT !.totalPayloads = @ + 1]
    /\ IF request.RequestVersion # "2.0"
       THEN /\ frame' = [frame EXCEPT
                           ![t].reg = 0,
                           ![t].id = request.RequestId,
                           ![t].hrResponses = <<>>,
                           ![t].response =
                              <<RequestNewErrorResponse(request,
                                   InvalidRequest, "Version is not 2.0.")>>]
            /\ pc' = [pc EXCEPT ![t] = "track_load"]
       ELSE /\ frame' = [frame EXCEPT ![t].reg = 0,
                                      ![t].id = request.RequestId,
                                      ![t].hrResponses = <<>>]
            /\ pc' = [pc EXCEPT ![t] = "hr_lookup"]
    /\ UNCHANGED <<requestHandlers, registrations,
                   totalRequests, totalSuccessResponses,
                   totalErrorResponses, totalSuccessNotifications,
                   totalErrorNotifications, currentActiveRequests,
                   calls, before>>

\* A lookup without the nil check: the nil handler is counted and called,
\* and calling a nil function panics.
HandleRequest_Lookup_NoNilCheck(t) ==
    /\ pc[t] = "hr_lookup"
    /\ frame' = [frame EXCEPT ![t].handler =
                     requestHandlers[frame[t].request[1].RequestMethod]]
    /\ pc' = [pc EXCEPT ![t] = "hr_requests_load"]
    /\ UNCHANGED <<calls, before>>
    /\ UnchangedServer

\* handler := server.requestHandlers[request.Method()] (server.go:109-113).
HandleRequest_Lookup(t) ==
    LET f == frame[t]
        request == f.request[1]
    IN
    /\ pc[t] = "hr_lookup"
    /\ \E handler \in RegistryRead(t, request.RequestMethod) :
          IF handler = NoHandler
          THEN /\ frame' = [frame EXCEPT
                              ![t].response =
                                 <<RequestNewErrorResponse(request,
                                      MethodNotFound, "")>>]
               /\ pc' = [pc EXCEPT ![t] = "track_load"]
          ELSE /\ frame' = [frame EXCEPT ![t].handler = handler]
               /\ pc' = [pc EXCEPT ![t] = "hr_requests_load"]
    /\ UNCHANGED <<calls, before>>
    /\ UnchangedServer

\* server.totalRequests += 1 (server.go:115), the read.
HandleRequest_LoadTotalRequests(t) ==
    /\ pc[t] = "hr_requests_load"
    /\ frame' = [frame EXCEPT ![t].reg = totalRequests]
    /\ pc' = [pc EXCEPT ![t] = "hr_requests_store"]
    /\ UNCHANGED <<calls, before>>
    /\ UnchangedServer

\* A HandleRequest that invokes the handler without counting the request.
HandleRequest_StoreTotalRequests_NotCounted(t) ==
    /\ pc[t] = "hr_requests_store"
    /\ totalRequests' = frame[t].reg
    /\ tally' = tally
    /\ frame' = [frame EXCEPT ![t].reg = 0]
    /\ pc' = [pc EXCEPT ![t] = "hr_active"]
    /\ UNCHANGED <<requestHandlers, registrations,
                   totalPayloads, totalSuccessResponses,
                   totalErrorResponses, totalSuccessNotifications,
                   totalErrorNotifications, currentActiveRequests,
                   calls, before>>

\* server.totalRequests += 1 (server.go:115), the write; the decrement of
\* the gauge is deferred (server.go:117-121).
HandleRequest_StoreTotalRequests(t) ==
    /\ pc[t] = "hr_requests_store"
    /\ totalRequests' = Inc(frame[t].reg)
    /\ tally' = [tally EXCEPT !.totalRequests = @ + 1]
    /\ frame' = [frame EXCEPT ![t].reg = 0]
    /\ pc' = [pc EXCEPT ![t] = "hr_active"]
    /\ UNCHANGED <<requestHandlers, registrations,
                   totalPayloads, totalSuccessResponses,
                   totalErrorResponses, totalSuccessNotifications,
                   totalErrorNotifications, currentActiveRequests,
                   calls, before>>

\* atomic.AddUint64(&server.currentActiveRequests, 1) (server.go:123).
HandleRequest_AddActive(t) ==
    /\ pc[t] = "hr_active"
    /\ currentActiveRequests' = Inc(currentActiveRequests)
    /\ pc' = [pc EXCEPT ![t] = "handler"]
    /\ UNCHANGED <<requestHandlers, registrations,
                   totalPayloads, totalRequests,
                   totalSuccessResponses, totalErrorResponses,
                   totalSuccessNotifications, totalErrorNotifications,
                   frame, calls, before,
                   tally>>

\* response = handler(request) (server.go:124): the handler returns a
\* response or panics.
HandleRequest_InvokeHandler(t) ==
    LET f == frame[t]
        outcome == CallHandler(f.handler, f.request[1])
    IN
    /\ pc[t] = "handler"
    /\ frame' = [frame EXCEPT ![t].response = outcome.response,
                              ![t].panicking = outcome.panicked,
                              ![t].panicValue =
                                 IF outcome.panicked
                                 THEN PanicValue(f.handler) ELSE Nil,
                              ![t].handled = Append(@, f.handler)]
    /\ pc' = [pc EXCEPT ![t] = "defer_active"]
    /\ UNCHANGED <<calls, before>>
    /\ UnchangedServer

\* A decrement placed after the handler call instead of being deferred: a
\* panic skips it.
Deferred_SubActive_SkippedOnPanic(t) ==
    /\ pc[t] = "defer_active"
    /\ currentActiveRequests' =
          IF frame[t].panicking THEN currentActiveRequests
          ELSE Dec(currentActiveRequests)
    /\ pc' = [pc EXCEPT ![t] = "track_load"]
    /\ UNCHANGED <<requestHandlers, registrations,
                   totalPayloads, totalRequests,
                   totalSuccessResponses, totalErrorResponses,
                   totalSuccessNotifications, totalErrorNotifications,
                   frame, calls, before,
                   tally>>

\* The deferred atomic.AddUint64(&server.currentActiveRequests, ^uint64(0))
\* (server.go:117-121); it runs on return and on panic.
Deferred_SubActive(t) ==
    /\ pc[t] = "defer_active"
    /\ currentActiveRequests' = Dec(currentActiveRequests)
    /\ pc' = [pc EXCEPT ![t] = "track_load"]
    /\ UNCHANGED <<requestHandlers, registrations,
                   totalPayloads, totalRequests,
                   totalSuccessResponses, totalErrorResponses,
                   totalSuccessNotifications, totalErrorNotifications,
                   frame, calls, before,
                   tally>>

\* The value of the counter of that name.
counterValue(name) ==
    CASE name = "totalSuccessNotifications" -> totalSuccessNotifications
      [] name = "totalErrorNotifications" -> totalErrorNotifications
      [] name = "totalSuccessResponses" -> totalSuccessResponses
      [] OTHER -> totalErrorResponses

\* The first deferred function (server.go:80-101): recover from a panic,
\* then the read of the counter that tracks the response.  A nil response
\* makes response.ErrorCode() panic inside the deferred function, after
\* recover has been called: that panic reaches the caller.
Deferred_Recover(t) ==
    LET f == frame[t] IN
    /\ pc[t] = "track_load"
    /\ \E r \in Recover(f) :
          LET response == recovered(f, r) IN
          IF response = <<>>
          THEN /\ frame' = [frame EXCEPT ![t].panicking = TRUE]
               /\ pc' = [pc EXCEPT ![t] = "crashed"]
          ELSE /\ frame' = [frame EXCEPT
                              ![t].response = response,
                              ![t].panicking = FALSE,
                              ![t].panicValue = Nil,
                              ![t].track = trackedCounter(f.id, response[1]),
                              ![t].reg =
                                 counterValue(
                                    trackedCounter(f.id, response[1]))]
               /\ pc' = [pc EXCEPT ![t] = "track_store"]
    /\ UNCHANGED <<calls, before>>
    /\ UnchangedServer

\* The write of the counter that tracks the response, then
\* appendResponses(&responses, response) and the return (server.go:86-101).
Deferred_Track(t) ==
    LET f == frame[t]
        responses == appendResponses(f.hrResponses, f.response[1])
        next == afterHandleRequest(
                   [f EXCEPT !.reg = 0, !.hrResponses = responses],
                   responses)
    IN
    /\ pc[t] = "track_store"
    /\ totalSuccessNotifications' =
          IF f.track = "totalSuccessNotifications" THEN Inc(f.reg)
          ELSE totalSuccessNotifications
    /\ totalErrorNotifications' =
          IF f.track = "totalErrorNotifications" THEN Inc(f.reg)
          ELSE totalErrorNotifications
    /\ totalSuccessResponses' =
          IF f.track = "totalSuccessResponses" THEN Inc(f.reg)
          ELSE totalSuccessResponses
    /\ totalErrorResponses' =
          IF f.track = "totalErrorResponses" THEN Inc(f.reg)
          ELSE totalErrorResponses
    /\ tally' = [tally EXCEPT ![f.track] = @ + 1]
    /\ frame' = [frame EXCEPT ![t] = next.frame]
    /\ pc' = [pc EXCEPT ![t] = next.pc]
    /\ UNCHANGED <<requestHandlers, registrations,
                   totalPayloads, totalRequests,
                   currentActiveRequests, calls, before>>

\* The caller takes the responses; it may call again.
Return(t) ==
    /\ pc[t] = "returned"
    /\ frame' = [frame EXCEPT ![t] = IdleFrame]
    /\ pc' = [pc EXCEPT ![t] = "idle"]
    /\ before' = ZeroStats
    /\ UNCHANGED calls
    /\ UnchangedServer

\* ---------------------------------------------------------------- responses
\* A caller asks for ErrorMessageForCode(code).
ErrorMessageForCodeCall(t) ==
    /\ pc[t] = "idle"
    /\ \E code \in Codes :
          frame' = [frame EXCEPT ![t] =
                      [IdleFrame EXCEPT !.api = "ErrorMessageForCode",
                                        !.code = code,
                                        !.errMessage =
                                           ErrorMessageForCode(code)]]
    /\ pc' = [pc EXCEPT ![t] = "returned"]
    /\ calls' = calls + 1
    /\ UNCHANGED before
    /\ UnchangedServer

\* A caller builds a response with NewSuccessResponse(id, result).
NewSuccessResponseCall(t) ==
    /\ pc[t] = "idle"
    /\ \E id \in Ids \cup {Nil}, result \in Results :
          frame' = [frame EXCEPT ![t] =
                      [IdleFrame EXCEPT !.api = "NewSuccessResponse",
                                        !.id = id, !.result = result,
                                        !.response =
                                           <<NewSuccessResponse(id, result)>>]]
    /\ pc' = [pc EXCEPT ![t] = "built"]
    /\ calls' = calls + 1
    /\ UNCHANGED before
    /\ UnchangedServer

\* A caller builds a response with NewErrorResponse(id, code, message).
NewErrorResponseCall(t) ==
    /\ pc[t] = "idle"
    /\ \E id \in Ids \cup {Nil}, code \in Codes, message \in Messages :
          frame' = [frame EXCEPT ![t] =
                      [IdleFrame EXCEPT !.api = "NewErrorResponse",
                                        !.id = id, !.code = code,
                                        !.message = message,
                                        !.response =
                                           <<NewErrorResponse(id, code,
                                                              message)>>]]
    /\ pc' = [pc EXCEPT ![t] = "built"]
    /\ calls' = calls + 1
    /\ UNCHANGED before
    /\ UnchangedServer

\* A caller builds a response with request.NewErrorResponse(code, message).
RequestNewErrorResponseCall(t) ==
    /\ pc[t] = "idle"
    /\ \E request \in Requests, code \in Codes, message \in Messages :
          frame' = [frame EXCEPT ![t] =
                      [IdleFrame EXCEPT !.api = "request.NewErrorResponse",
                                        !.request = <<request>>,
                                        !.id = request.RequestId,
                                        !.code = code, !.message = message,
                                        !.response =
                                           <<RequestNewErrorResponse(
                                                request, code, message)>>]]
    /\ pc' = [pc EXCEPT ![t] = "built"]
    /\ calls' = calls + 1
    /\ UNCHANGED before
    /\ UnchangedServer

\* A caller builds a response with NewServerErrorResponse(id, err); message
\* is err.Error().
NewServerErrorResponseCall(t) ==
    /\ pc[t] = "idle"
    /\ \E id \in Ids \cup {Nil}, message \in Messages :
          frame' = [frame EXCEPT ![t] =
                      [IdleFrame EXCEPT !.api = "NewServerErrorResponse",
                                        !.id = id, !.code = ServerError,
                                        !.message = message,
                                        !.response =
                                           <<NewServerErrorResponse(
                                                id, message)>>]]
    /\ pc' = [pc EXCEPT ![t] = "built"]
    /\ calls' = calls + 1
    /\ UNCHANGED before
    /\ UnchangedServer

\* The caller encodes the response it has built: response.String().
Response_String(t) ==
    /\ pc[t] = "built"
    /\ frame' = [frame EXCEPT
                   ![t].built = ResponsesOf(<<frame[t].response>>),
                   ![t].data = ResponseString(frame[t].response[1])]
    /\ pc' = [pc EXCEPT ![t] = "encoded"]
    /\ UNCHANGED <<calls, before>>
    /\ UnchangedServer

\* A caller encodes a Responses value: responses.String().
Responses_String(t) ==
    /\ pc[t] = "idle"
    /\ \E responses \in ResponsesValues :
          frame' = [frame EXCEPT ![t] =
                      [IdleFrame EXCEPT !.api = "Responses.String",
                                        !.built = responses,
                                        !.data = ResponsesString(responses)]]
    /\ pc' = [pc EXCEPT ![t] = "encoded"]
    /\ calls' = calls + 1
    /\ UNCHANGED before
    /\ UnchangedServer

\* A caller has a text of its own to decode.
ReceiveText(t) ==
    /\ pc[t] = "idle"
    /\ \E data \in Texts :
          frame' = [frame EXCEPT ![t] =
                      [IdleFrame EXCEPT !.api = "NewResponsesFromJSON",
                                        !.data = data]]
    /\ pc' = [pc EXCEPT ![t] = "encoded"]
    /\ calls' = calls + 1
    /\ UNCHANGED before
    /\ UnchangedServer

\* The caller decodes the text with NewResponsesFromJSON(data); a panic
\* unwinds the caller.
NewResponsesFromJSONCall(t) ==
    LET decoded == NewResponsesFromJSON(frame[t].data) IN
    /\ pc[t] = "encoded"
    /\ frame' = [frame EXCEPT ![t].decoded = decoded,
                              ![t].panicking = decoded.panicked]
    /\ pc' = [pc EXCEPT ![t] = IF decoded.panicked THEN "crashed"
                                ELSE "returned"]
    /\ UNCHANGED <<calls, before>>
    /\ UnchangedServer

\* ---------------------------------------------------------- specifications
\* One step of the code of caller t.
Step(t) ==
    \/ HWS_LoadTotalPayloads(t)
    \/ HWS_StoreTotalPayloads(t)
    \/ EmptyBatch_LoadTotalErrorResponses(t)
    \/ EmptyBatch_StoreTotalErrorResponses(t)
    \/ handleSingle_Parse(t)
    \/ handleSingle_LoadTotalErrorResponses(t)
    \/ handleSingle_StoreTotalErrorResponses(t)
    \/ handleSingle_LoadTotalPayloads(t)
    \/ handleSingle_StoreTotalPayloads(t)
    \/ HandleRequest_LoadTotalPayloads(t)
    \/ HandleRequest_StoreTotalPayloads(t)
    \/ HandleRequest_Lookup(t)
    \/ HandleRequest_LoadTotalRequests(t)
    \/ HandleRequest_StoreTotalRequests(t)
    \/ HandleRequest_AddActive(t)
    \/ HandleRequest_InvokeHandler(t)
    \/ Deferred_SubActive(t)
    \/ Deferred_Recover(t)
    \/ Deferred_Track(t)
    \/ Return(t)

\* One step of SetHandler or GetHandler by caller t.
RegistryStep(t) ==
    \/ SetHandler_Store(t)
    \/ GetHandler_Load(t)

\* Sequential callers: one goroutine issues MaxCalls calls one after the
\* other, and the stats are observed at the start of each call.
FirstCaller == CHOOSE t \in Callers : \A u \in Callers : t <= u

Call(t) ==
    /\ calls < MaxCalls
    /\ before' = Stats
    /\ \/ Handle(t, Payloads)
       \/ HandleWithState(t, StatefulPayloads)
       \/ HandleRequest(t, Requests)

Next ==
    \E t \in {FirstCaller} : Call(t) \/ Step(t)

Spec == Init /\ [][Next]_vars

\* Concurrent callers: NumCallers calls in all, whose steps interleave;
\* handlers may be registered and looked up while requests are dispatched.
ConcurrentCall(t) ==
    /\ calls < NumCallers
    /\ UNCHANGED before
    /\ \/ Handle(t, ConcurrentPayloads)
       \/ HandleRequest(t, ConcurrentRequests)
       \/ SetHandler(t, ConcurrentMethodNames, ConcurrentHandlers)
       \/ GetHandler(t, ConcurrentMethodNames)

ConcurrentNext ==
    \E t \in Callers : ConcurrentCall(t) \/ Step(t) \/ RegistryStep(t)

ConcurrentSpec == Init /\ [][ConcurrentNext]_vars

\* The registry alone: one goroutine issues MaxRegistryCalls calls of
\* SetHandler and GetHandler one after the other.
RegistryCall(t) ==
    /\ calls < MaxRegistryCalls
    /\ UNCHANGED before
    /\ \/ SetHandler(t, MethodNames, Handlers)
       \/ GetHandler(t, MethodNames)

RegistryNext ==
    \E t \in {FirstCaller} : RegistryCall(t) \/ RegistryStep(t) \/ Return(t)

RegistrySpec == Init /\ [][RegistryNext]_vars

\* Handlers registered after construction: one goroutine registers a
\* handler and has payloads dispatched, one call after the other.
LateCall(t) ==
    /\ calls < MaxCalls + 1
    /\ before' = Stats
    /\ \/ SetHandler(t, LateMethodNames, LateHandlers)
       \/ Handle(t, LatePayloads)
       \/ HandleWithState(t, LatePayloads)
       \/ HandleRequest(t, LateRequests)

LateNext ==
    \E t \in {FirstCaller} : LateCall(t) \/ Step(t) \/ SetHandler_Store(t)

LateSpec == Init /\ [][LateNext]_vars

\* Handlers that break the handler contract: one goroutine registers one
\* and has payloads dispatched, one call after the other.
FaultCall(t) ==
    /\ calls < MaxCalls + 1
    /\ before' = Stats
    /\ \/ SetHandler(t, LateMethodNames, FaultyHandlers)
       \/ Handle(t, FaultPayloads)
       \/ HandleRequest(t, FaultRequests)

FaultNext ==
    \E t \in {FirstCaller} : FaultCall(t) \/ Step(t) \/ SetHandler_Store(t)

FaultSpec == Init /\ [][FaultNext]_vars

\* The same callers and handlers under a scheduler that lets a goroutine
\* that can take a step take it eventually: no call is abandoned half way,
\* and the handler invocation is one of these steps, so every invocation
\* eventually returns or panics.
FairFaultSpec ==
    /\ Init /\ [][FaultNext]_vars
    /\ WF_vars(Step(FirstCaller) \/ SetHandler_Store(FirstCaller))

\* The response values alone: one goroutine builds, encodes and decodes
\* responses, one call after the other.
ResponseCall(t) ==
    /\ calls < MaxCalls
    /\ \/ ErrorMessageForCodeCall(t)
       \/ NewSuccessResponseCall(t)
       \/ NewErrorResponseCall(t)
       \/ RequestNewErrorResponseCall(t)
       \/ NewServerErrorResponseCall(t)
       \/ Responses_String(t)
       \/ ReceiveText(t)

ResponseNext ==
    \E t \in {FirstCaller} :
        \/ ResponseCall(t)
        \/ Response_String(t)
        \/ NewResponsesFromJSONCall(t)
        \/ Return(t)

ResponseSpec == Init /\ [][ResponseNext]_vars

\* ------------------------------------------------------------------ claims
\* The call of caller t has returned and its responses are in frame[t].ret.
Returned(t) == pc[t] = "returned"

\* Caller t entered through Handle or HandleWithState.
ViaHandle(t) == frame[t].api \in {"Handle", "HandleWithState"}

\* How much a counter has grown since caller t started its call.
Delta(counter) == (Stats[counter] - before[counter]) % WordMod

\* The ids of a sequence of responses, in order.
IdsOf(responses) == [k \in 1..Len(responses) |-> Id(responses[k])]

\* The non-null ids of the elements of a batch, in order.
RECURSIVE ItemIds(_)
ItemIds(items) ==
    IF items = <<>> THEN <<>>
    ELSE IF Head(items).id # Nil
    THEN <<Head(items).id>> \o ItemIds(Tail(items))
    ELSE ItemIds(Tail(items))

\* C1: a lone payload that decodes to an object with a non-null id makes
\* Handle return exactly one response, and that response carries the id of
\* the payload, whatever the outcome.
C1_LoneRequestAnsweredOnceWithItsId ==
    \A t \in Callers :
        LET f == frame[t] IN
        /\ pc[t] # "crashed"
        /\ (Returned(t) /\ ViaHandle(t) /\ f.jsonRequest.kind = "object"
            /\ f.jsonRequest.id # Nil)
           => (Len(f.ret) = 1 /\ Id(f.ret[1]) = f.jsonRequest.id)

\* C1 witness: Handle has returned for a lone object with an id whose handler
\* panicked.
C1_Witness ==
    \E t \in Callers :
        /\ Returned(t) /\ ViaHandle(t)
        /\ frame[t].jsonRequest = Object("2.0", "panic", "id2")
        /\ frame[t].handled = <<"forcePanic">>

\* C2: a notification with version "2.0" and a registered method makes Handle
\* return no response; exactly one of the two notification counters grows by
\* one (success for a success response, error for an error response or a
\* panic), totalPayloads and totalRequests grow by one and the two response
\* counters do not change.
C2_NotificationCountedNotAnswered ==
    \A t \in Callers :
        LET f == frame[t]
            j == f.jsonRequest
        IN
        (Returned(t) /\ ViaHandle(t) /\ j.kind = "object" /\ j.id = Nil
         /\ j.jsonrpc = "2.0" /\ j.method \in MethodNames
         /\ requestHandlers[j.method] # NoHandler)
        => /\ f.ret = <<>>
           /\ Delta("totalPayloads") = 1
           /\ Delta("totalRequests") = 1
           /\ Delta("totalSuccessResponses") = 0
           /\ Delta("totalErrorResponses") = 0
           /\ Delta("totalSuccessNotifications") =
                 (IF f.handled = <<"subtract">> THEN 1 ELSE 0)
           /\ Delta("totalErrorNotifications") =
                 (IF f.handled = <<"subtract">> THEN 0 ELSE 1)
           /\ f.handled # <<>>

\* C2 witness: Handle has returned for a notification whose handler answered
\* with an error response, and the error notification has been counted.
C2_Witness ==
    \E t \in Callers :
        /\ Returned(t) /\ ViaHandle(t)
        /\ frame[t].jsonRequest = Object("2.0", "fail", Nil)
        /\ frame[t].handled = <<"invalidParams">>
        /\ totalErrorNotifications = Inc(before.totalErrorNotifications)

\* C3: a batch of N >= 1 elements that are all non-objects makes Handle
\* return N error responses, each InvalidRequest with a null id.
C3_BatchOfNonObjectsAnsweredPerItem ==
    \A t \in Callers :
        LET f == frame[t]
            j == f.jsonRequest
        IN
        (Returned(t) /\ ViaHandle(t) /\ j.kind = "array" /\ Len(j.items) >= 1
         /\ \A k \in 1..Len(j.items) : j.items[k].kind # "object")
        => /\ Len(f.ret) = Len(j.items)
           /\ \A k \in 1..Len(f.ret) :
                 ErrorCode(f.ret[k]) = InvalidRequest /\ Id(f.ret[k]) = Nil

\* C4: a lone payload rejected before a Request is built (malformed JSON, or
\* an object without id whose jsonrpc or method is not a string) makes Handle
\* return exactly one error response with a null id: ParseError for malformed
\* JSON, InvalidRequest for the type errors.
C4_LoneStructuralErrorSurfaced ==
    \A t \in Callers :
        LET f == frame[t]
            j == f.jsonRequest
        IN
        (Returned(t) /\ ViaHandle(t)
         /\ \/ j.kind = "malformed"
            \/ (j.kind = "object" /\ j.id = Nil
                /\ (j.jsonrpc = NonString \/ j.method = NonString)))
        => /\ Len(f.ret) = 1
           /\ Id(f.ret[1]) = Nil
           /\ ErrorCode(f.ret[1]) =
                 (IF j.kind = "malformed" THEN ParseError ELSE InvalidRequest)

Quiescent == \A t \in Callers : pc[t] = "idle"

InHandler == {t \in Callers : pc[t] \in {"handler", "defer_active"}}

\* C8: in every reachable state, under any interleaving and for every handler
\* outcome, currentActiveRequests is the number of handler invocations that
\* have started and not yet exited; it never wraps below zero and is 0 when
\* no call is in progress.
C8_GaugeCountsInvocationsInFlight ==
    /\ currentActiveRequests = Cardinality(InHandler)
    /\ Quiescent => currentActiveRequests = 0

\* C8 witness: one handler has panicked and its deferred decrement has run
\* while the handler of another caller is still in flight.
C8_Witness ==
    \E t, u \in Callers :
        /\ pc[t] = "handler"
        /\ pc[u] = "track_load" /\ frame[u].panicking
        /\ currentActiveRequests = 1

\* C9: every counter is monotonic: no step of the server makes any of the
\* six counters smaller, so two successive reads never show a decrease.
C9_CountersMonotonic ==
    [][/\ totalPayloads' >= totalPayloads
       /\ totalRequests' >= totalRequests
       /\ totalSuccessResponses' >= totalSuccessResponses
       /\ totalErrorResponses' >= totalErrorResponses
       /\ totalSuccessNotifications' >= totalSuccessNotifications
       /\ totalErrorNotifications' >= totalErrorNotifications]_vars

\* C10: each completed call of Handle, HandleWithState or HandleRequest by
\* sequential callers has increased totalPayloads by exactly one, whatever
\* the shape of the payload.
C10_OnePayloadPerCall ==
    \A t \in Callers : Returned(t) => Delta("totalPayloads") = 1

\* C10 witness: Handle has returned for a batch of two elements that both
\* reached HandleRequest, each of which has moved totalPayloads down and up.
C10_Witness ==
    \E t \in Callers :
        /\ Returned(t) /\ ViaHandle(t)
        /\ Len(frame[t].jsonRequest.items) = 2
        /\ Len(frame[t].handled) = 2
        /\ totalPayloads = Inc(before.totalPayloads)

\* C11: an empty array makes Handle return exactly one response, an error
\* with code InvalidRequest, message "Batch is empty." and a null id;
\* totalErrorResponses and totalPayloads grow by one and totalRequests does
\* not change.
C11_EmptyBatchRejectedOnce ==
    \A t \in Callers :
        LET f == frame[t]
            j == f.jsonRequest
        IN
        (Returned(t) /\ ViaHandle(t) /\ j.kind = "array" /\ j.items = <<>>)
        => /\ Len(f.ret) = 1
           /\ ErrorCode(f.ret[1]) = InvalidRequest
           /\ ErrorMessage(f.ret[1]) = "Batch is empty."
           /\ Id(f.ret[1]) = Nil
           /\ Delta("totalErrorResponses") = 1
           /\ Delta("totalPayloads") = 1
           /\ Delta("totalRequests") = 0

\* C11 witness: Handle has returned for the payload [].
C11_Witness ==
    \E t \in Callers :
        /\ Returned(t) /\ frame[t].api = "Handle"
        /\ frame[t].jsonRequest = Array(<<>>)
        /\ totalErrorResponses = 1

\* The call of caller t dispatched exactly one request: HandleRequest called
\* directly, or Handle of a lone payload that decoded to a Request.
LoneRequest(t) == ~frame[t].isBatch /\ frame[t].request # <<>>

\* C12: a request with version "2.0", a non-null id and a method without a
\* registered handler yields exactly one response: MethodNotFound, message
\* "Method not found" and the id of the request; totalRequests and
\* currentActiveRequests do not change, no handler runs, and
\* totalErrorResponses grows by one.
C12_UnregisteredMethodNotFound ==
    \A t \in Callers :
        LET f == frame[t] IN
        (Returned(t) /\ LoneRequest(t)
         /\ f.request[1].RequestVersion = "2.0"
         /\ f.request[1].RequestId # Nil
         /\ requestHandlers[f.request[1].RequestMethod] = NoHandler)
        => /\ Len(f.ret) = 1
           /\ ErrorCode(f.ret[1]) = MethodNotFound
           /\ ErrorMessage(f.ret[1]) = "Method not found"
           /\ Id(f.ret[1]) = f.request[1].RequestId
           /\ f.handled = <<>>
           /\ Delta("totalRequests") = 0
           /\ Delta("currentActiveRequests") = 0
           /\ Delta("totalErrorResponses") = 1

\* C12 witness: Handle has returned the MethodNotFound response for
\* {"jsonrpc": "2.0", "method": "foobar", "id": "id1"}.
C12_Witness ==
    \E t \in Callers :
        /\ Returned(t) /\ frame[t].api = "Handle"
        /\ frame[t].jsonRequest = Object("2.0", "foobar", "id1")
        /\ Len(frame[t].ret) = 1
        /\ ErrorCode(frame[t].ret[1]) = MethodNotFound

\* The lone request of caller t carries a version other than "2.0" (the
\* version of a Request is always a string).
WrongVersion(t) ==
    LoneRequest(t) /\ frame[t].request[1].RequestVersion # "2.0"

C14_RegistryDataRaceFree ==
    \A t, u \in Callers :
        (t # u /\ pc[t] = "set_handler")
        => pc[u] \notin {"set_handler", "get_handler", "hr_lookup"}

\* The handler the SetHandler calls of a history leave bound to a name: the
\* one of the most recent call for that name, nil when there is none.
RECURSIVE MostRecent(_, _)
MostRecent(history, methodName) ==
    IF history = <<>> THEN NoHandler
    ELSE LET last == history[Len(history)] IN
         IF last[1] = methodName THEN last[2]
         ELSE MostRecent(SubSeq(history, 1, Len(history) - 1), methodName)

\* C15: after any sequence of SetHandler calls, GetHandler(n) returns the
\* handler of the most recent SetHandler(n, h), and nil when n was never
\* registered; a SetHandler leaves the bindings of the other names alone and
\* an overwrite raises no error.
C15_LastRegistrationWins ==
    /\ \A n \in MethodNames :
          requestHandlers[n] = MostRecent(registrations, n)
    /\ \A t \in Callers :
          /\ pc[t] # "crashed"
          /\ (Returned(t) /\ frame[t].api = "GetHandler")
             => frame[t].handler =
                   MostRecent(registrations, frame[t].methodName)

\* C15 witness: GetHandler has returned the handler of the second of two
\* SetHandler calls that replaced the handler newTestServer had bound.
C15_Witness ==
    \E t \in Callers :
        /\ Returned(t) /\ frame[t].api = "GetHandler"
        /\ frame[t].methodName = "subtract"
        /\ frame[t].handler = "forcePanic"
        /\ Len(registrations) = Len(newTestServerCalls) + 2
        /\ registrations[Len(registrations) - 1] =
              <<"subtract", "invalidParams">>

\* An element of a payload that ends up calling a handler: an object with
\* version "2.0" and a method that has a registered handler.
ReachesHandler(item) ==
    /\ item.kind = "object"
    /\ item.jsonrpc = "2.0"
    /\ item.method \in MethodNames
    /\ requestHandlers[item.method] # NoHandler

\* The elements of a call: those of the batch, the lone payload, or the
\* request given to HandleRequest (as the object that decodes to it).
ItemsOf(f) ==
    IF f.api = "HandleRequest"
    THEN <<Object(f.request[1].RequestVersion, f.request[1].RequestMethod,
                  f.request[1].RequestId)>>
    ELSE IF f.jsonRequest.kind = "array" THEN f.jsonRequest.items
    ELSE <<f.jsonRequest>>

\* How many elements of a sequence satisfy ReachesHandler.
RECURSIVE CountReachingHandler(_)
CountReachingHandler(items) ==
    IF items = <<>> THEN 0
    ELSE (IF ReachesHandler(Head(items)) THEN 1 ELSE 0)
         + CountReachingHandler(Tail(items))

\* The caller is inside Handle, HandleWithState or HandleRequest.
Dispatching(t) ==
    frame[t].api \in {"Handle", "HandleWithState", "HandleRequest"}

\* C16: with sequential callers totalRequests counts the handler
\* invocations: during a call it has grown by the number of invocations made
\* so far (plus the one about to be made), and at the return by the number
\* of elements that reach a handler; malformed and invalid elements, wrong
\* versions and unregistered methods are never counted.
C16_TotalRequestsCountsInvocations ==
    \A t \in Callers :
        LET f == frame[t] IN
        /\ Dispatching(t)
           => Delta("totalRequests") =
                 Len(f.handled)
                 + (IF pc[t] \in {"hr_active", "handler"} THEN 1 ELSE 0)
        /\ (Returned(t) /\ Dispatching(t))
           => Delta("totalRequests") = CountReachingHandler(ItemsOf(f))

\* C16 witness: Handle has returned for a batch of which one element called
\* a handler and the other named an unregistered method.
C16_Witness ==
    \E t \in Callers :
        /\ Returned(t) /\ frame[t].api = "Handle"
        /\ frame[t].jsonRequest =
              Array(<<Object("2.0", "foobar", "id1"),
                      Object("2.0", "subtract", Nil)>>)
        /\ totalRequests = Inc(before.totalRequests)

\* An element rejected before a Request is built: it does not decode to an
\* object, or its jsonrpc or its method is not a string.
RejectedBeforeRequest(item) ==
    \/ item.kind # "object"
    \/ item.jsonrpc = NonString
    \/ item.method = NonString

\* An element whose handler is invoked and returns a success response.
Succeeds(item) ==
    ReachesHandler(item) /\ requestHandlers[item.method] = "subtract"

\* The positions of the elements of a call that satisfy a condition.
Positions(f, Cond(_)) ==
    {k \in 1..Len(ItemsOf(f)) : Cond(ItemsOf(f)[k])}

\* C17: every element rejected before a Request is built, with or without an
\* id, adds exactly one to totalErrorResponses and nothing to totalRequests,
\* to the gauge or to the two notification counters: at the return of Handle
\* totalErrorResponses has grown by the number of rejected elements plus the
\* number of Requests with an id that were answered with an error, the
\* notification counters by the number of Requests without an id, and
\* totalRequests by the number of handler invocations.
C17_RejectedItemsCountAsErrorResponses ==
    \A t \in Callers :
        LET f == frame[t]
            IsRejected(item) == RejectedBeforeRequest(item)
            IsErrorAnswered(item) ==
                /\ ~RejectedBeforeRequest(item)
                /\ item.id # Nil
                /\ ~Succeeds(item)
            IsNotification(item) ==
                ~RejectedBeforeRequest(item) /\ item.id = Nil
        IN
        (Returned(t) /\ ViaHandle(t) /\ ItemsOf(f) # <<>>)
        => /\ Delta("totalErrorResponses") =
                 Cardinality(Positions(f, IsRejected))
                 + Cardinality(Positions(f, IsErrorAnswered))
           /\ Delta("totalSuccessNotifications")
              + Delta("totalErrorNotifications") =
                 Cardinality(Positions(f, IsNotification))
           /\ Delta("totalRequests") =
                 Cardinality(Positions(f, ReachesHandler))
           /\ Delta("currentActiveRequests") = 0

\* C17 witness: Handle has returned for a batch of two rejected elements,
\* one with an id and one without, and both have been counted.
C17_Witness ==
    \E t \in Callers :
        /\ Returned(t) /\ frame[t].api = "Handle"
        /\ frame[t].jsonRequest =
              Array(<<Object(NonString, "subtract", "id1"), Scalar>>)
        /\ totalErrorResponses = Inc(Inc(before.totalErrorResponses))
        /\ frame[t].handled = <<>>

\* C18: with sequential callers the two response counters count exactly the
\* responses sent back: over a Handle call
\* totalSuccessResponses + totalErrorResponses grows by the number of
\* responses the call returns.
C18_ResponseCountersCountReturnedResponses ==
    \A t \in Callers :
        (Returned(t) /\ ViaHandle(t))
        => (Delta("totalSuccessResponses") + Delta("totalErrorResponses"))
           = Len(frame[t].ret)

\* C19: totalErrorNotifications counts only the notifications whose handler
\* was invoked and did not return success: over a call it grows by the
\* number of elements without an id that reach a handler and fail there; a
\* malformed or invalid element, a notification with a wrong version and a
\* notification for an unregistered method never increase it.
C19_ErrorNotificationsOnlyFromHandlers ==
    \A t \in Callers :
        LET f == frame[t]
            IsFailedNotification(item) ==
                item.id = Nil /\ ReachesHandler(item) /\ ~Succeeds(item)
        IN
        (Returned(t) /\ Dispatching(t))
        => Delta("totalErrorNotifications") =
              Cardinality(Positions(f, IsFailedNotification))

\* C20: a notification with version "2.0" that names an unregistered method
\* makes Handle return no response; totalErrorNotifications grows by exactly
\* one and totalRequests, totalErrorResponses and totalSuccessNotifications
\* do not change.
C20_UnregisteredNotificationCounted ==
    \A t \in Callers :
        LET f == frame[t]
            j == f.jsonRequest
        IN
        (Returned(t) /\ ViaHandle(t) /\ j.kind = "object" /\ j.id = Nil
         /\ j.jsonrpc = "2.0" /\ j.method \in MethodNames
         /\ requestHandlers[j.method] = NoHandler)
        => /\ f.ret = <<>>
           /\ Delta("totalErrorNotifications") = 1
           /\ Delta("totalRequests") = 0
           /\ Delta("totalErrorResponses") = 0
           /\ Delta("totalSuccessNotifications") = 0

\* C20 witness: Handle has returned for {"jsonrpc": "2.0", "method":
\* "foobar"} without invoking a handler.
C20_Witness ==
    \E t \in Callers :
        /\ Returned(t) /\ frame[t].api = "Handle"
        /\ frame[t].jsonRequest = Object("2.0", "foobar", Nil)
        /\ frame[t].handled = <<>>
        /\ frame[t].track = "totalErrorNotifications"

Alone(item, state) ==
    LET r == newRequestResponderFromJSON(Marshal(item), TRUE, state) IN
    IF r.errCode # Success
    THEN [response |-> NewErrorResponse(r.id, r.errCode, r.errMessage),
          counter |-> "totalErrorResponses", invocations |-> 0]
    ELSE LET request == r.request[1]
             handler == requestHandlers[request.RequestMethod]
             outcome == CallHandler(handler, request)
             response ==
                IF request.RequestVersion # "2.0"
                THEN RequestNewErrorResponse(request, InvalidRequest,
                                             "Version is not 2.0.")
                ELSE IF handler = NoHandler
                THEN RequestNewErrorResponse(request, MethodNotFound, "")
                ELSE recovered([panicking |-> outcome.panicked,
                                response |-> outcome.response,
                                request |-> <<request>>],
                               IF outcome.panicked THEN PanicValue(handler)
                               ELSE Nil)[1]
         IN [response |-> response,
             counter |-> trackedCounter(request.RequestId, response),
             invocations |-> IF request.RequestVersion = "2.0"
                                /\ handler # NoHandler
                             THEN 1 ELSE 0]

\* The responses a batch of these elements returns if each element is
\* answered as it is answered alone.
RECURSIVE AloneResponses(_, _)
AloneResponses(items, state) ==
    IF items = <<>> THEN <<>>
    ELSE appendResponses(<<>>, Alone(Head(items), state).response)
         \o AloneResponses(Tail(items), state)

\* How many elements are tracked by this counter when each is alone.
RECURSIVE AloneCount(_, _, _)
AloneCount(items, state, counter) ==
    IF items = <<>> THEN 0
    ELSE (IF Alone(Head(items), state).counter = counter THEN 1 ELSE 0)
         + AloneCount(Tail(items), state, counter)

\* How many handler invocations the elements make when each is alone.
RECURSIVE AloneInvocations(_, _)
AloneInvocations(items, state) ==
    IF items = <<>> THEN 0
    ELSE Alone(Head(items), state).invocations
         + AloneInvocations(Tail(items), state)

\* C22: batch items are isolated: a batch of one element returns the
\* response and counts the counter of that element, and a batch of several
\* returns, in order, the responses its elements get alone and counts the
\* sum of what they count alone, whether the other elements succeed, return
\* errors, are malformed or panic; the call itself is one payload.
C22_BatchItemsIsolated ==
    \A t \in Callers :
        LET f == frame[t]
            items == f.jsonRequest.items
        IN
        (Returned(t) /\ ViaHandle(t) /\ f.jsonRequest.kind = "array"
         /\ items # <<>>)
        => /\ f.ret = AloneResponses(items, f.state)
           /\ \A counter \in {"totalSuccessResponses", "totalErrorResponses",
                              "totalSuccessNotifications",
                              "totalErrorNotifications"} :
                 Delta(counter) = AloneCount(items, f.state, counter)
           /\ Delta("totalRequests") = AloneInvocations(items, f.state)
           /\ Delta("totalPayloads") = 1
           /\ Delta("currentActiveRequests") = 0

\* C22 witness: Handle has returned for a batch whose first element panicked
\* and whose second element succeeded and is answered as it is alone.
C22_Witness ==
    \E t \in Callers :
        /\ Returned(t) /\ frame[t].api = "Handle"
        /\ frame[t].jsonRequest =
              Array(<<Object("2.0", "panic", "id2"),
                      Object("2.0", "subtract", "id1")>>)
        /\ frame[t].handled = <<"forcePanic", "subtract">>
        /\ Len(frame[t].ret) = 2
        /\ ErrorCode(frame[t].ret[1]) = ServerError
        /\ frame[t].ret[2] = NewSuccessResponse("id1", "result")

\* The bag a call hands to the items it dispatches: the bag given to
\* HandleWithState, the empty bag of Handle, or the bag of the request
\* given to HandleRequest.
BagOf(f) ==
    IF f.api = "HandleRequest" THEN f.request[1].requestState ELSE f.state

\* C23: HandleWithState(payload, state) passes the same state bag to every
\* dispatched item, the lone request or each element of a batch, so the
\* handler's State("foo") is state["foo"]; with Handle, or with a bag that
\* does not hold "foo", it is nil.  handlerWithState answers with that
\* value, so it is the result of every response the handler builds and of
\* every success response the call returns.
C23_StateBagReachesEveryItem ==
    \A t \in Callers :
        LET f == frame[t]
            expected == IF <<"foo", "bar">> \in BagOf(f) THEN "bar" ELSE Nil
        IN
        /\ (pc[t] = "handler" /\ f.api = "Handle")
           => f.request[1].requestState = EmptyState
        /\ (pc[t] = "handler" /\ f.api = "HandleWithState")
           => f.request[1].requestState = f.state
        /\ (pc[t] = "defer_active" /\ f.handler = "handlerWithState")
           => f.response =
                 <<NewSuccessResponse(f.request[1].RequestId, expected)>>
        /\ (Returned(t) /\ Dispatching(t) /\ f.handled # <<>>
            /\ \A k \in 1..Len(f.handled) : f.handled[k] = "handlerWithState")
           => \A k \in 1..Len(f.ret) :
                 ErrorCode(f.ret[k]) = Success
                 => f.ret[k].ResponseResult = expected

\* C23 witness: HandleWithState has returned "bar" twice for a batch of two
\* requests, each answered by handlerWithState.
C23_Witness ==
    \E t \in Callers :
        /\ Returned(t) /\ frame[t].api = "HandleWithState"
        /\ frame[t].state = {<<"foo", "bar">>}
        /\ Len(frame[t].jsonRequest.items) = 2
        /\ frame[t].handled = <<"handlerWithState", "handlerWithState">>
        /\ Len(frame[t].ret) = 2
        /\ \A k \in 1..2 : frame[t].ret[k].ResponseResult = "bar"

\* The message an object is rejected with when its jsonrpc or its method is
\* not a string: the jsonrpc member is looked at first.
FieldTypeMessage(item) ==
    IF item.jsonrpc = NonString THEN "Version (jsonrpc) must be a string."
    ELSE "Method must be a string."

\* An object whose jsonrpc member or method member is absent or not a
\* string.
FieldTypeError(item) ==
    /\ item.kind = "object"
    /\ item.jsonrpc = NonString \/ item.method = NonString

\* C24: a decoded item whose jsonrpc is absent or not a string is rejected
\* with InvalidRequest and "Version (jsonrpc) must be a string."; otherwise
\* one whose method is absent or not a string is rejected with
\* InvalidRequest and "Method must be a string."; no Request is built and no
\* handler is invoked for it, and the error response carries the id found
\* in the item (it is among the returned responses when that id is not
\* null).
C24_FieldTypesCheckedVersionFirst ==
    \A t \in Callers :
        LET f == frame[t] IN
        /\ (ViaHandle(t) /\ pc[t] = "hs_err_load"
            /\ FieldTypeError(f.rawMessage))
           => /\ f.request = <<>>
              /\ f.errCode = InvalidRequest
              /\ f.errMessage = FieldTypeMessage(f.rawMessage)
              /\ f.id = f.rawMessage.id
        /\ (ViaHandle(t) /\ FieldTypeError(f.rawMessage))
           => pc[t] \in {"hws_load", "hws_store", "hs_parse", "hs_err_load",
                         "hs_err_store", "returned"}
        /\ (Returned(t) /\ ViaHandle(t))
           => \A k \in 1..Len(ItemsOf(f)) :
                 LET item == ItemsOf(f)[k] IN
                 (FieldTypeError(item) /\ item.id # Nil)
                 => \E j \in 1..Len(f.ret) :
                       f.ret[j] = NewErrorResponse(item.id, InvalidRequest,
                                                   FieldTypeMessage(item))
        /\ (Returned(t) /\ ViaHandle(t) /\ FieldTypeError(f.jsonRequest))
           => /\ f.handled = <<>>
              /\ Delta("totalRequests") = 0

\* C24 witness: Handle has returned the version message, with the id of the
\* item, for an object whose jsonrpc and method are both not strings.
C24_Witness ==
    \E t \in Callers :
        /\ Returned(t) /\ frame[t].api = "Handle"
        /\ frame[t].jsonRequest = Object(NonString, NonString, "id2")
        /\ frame[t].ret =
              <<NewErrorResponse("id2", InvalidRequest,
                                 "Version (jsonrpc) must be a string.")>>

\* The Response values caller t holds: the response it built or was given
\* by a handler, the responses its call returned, those it encoded and
\* those NewResponsesFromJSON decoded for it.
RECURSIVE NonNil(_)
NonNil(items) ==
    IF items = <<>> THEN {}
    ELSE (IF Head(items) = <<>> THEN {} ELSE {Head(items)[1]})
         \cup NonNil(Tail(items))

ResponsesHeld(t) ==
    LET f == frame[t] IN
    {f.response[k] : k \in 1..Len(f.response)}
    \cup {f.ret[k] : k \in 1..Len(f.ret)}
    \cup NonNil(f.built.items)
    \cup NonNil(f.decoded.responses.items)

\* C25: every Response value, built by a constructor, produced by Handle or
\* decoded by NewResponsesFromJSON, never carries both a result and an
\* error, and its ErrorCode() is Success whenever no error is set.
C25_ResultAndErrorExclusive ==
    \A t \in Callers :
        \A response \in ResponsesHeld(t) :
            /\ ~(response.ResponseResult # Nil
                 /\ response.ResponseError # <<>>)
            /\ response.ResponseError = <<>>
               => ErrorCode(response) = Success

\* C26: every response that carries an error object has a non-zero code, so
\* ErrorCode() is Success only for responses without an error, and an error
\* response returned by a handler is tracked by totalErrorResponses or
\* totalErrorNotifications, never by a success counter.
C26_ErrorObjectsHaveNonZeroCode ==
    \A t \in Callers :
        LET f == frame[t] IN
        /\ \A response \in ResponsesHeld(t) :
              /\ response.ResponseError # <<>>
                 => response.ResponseError[1].Code # 0
              /\ ErrorCode(response) = Success
                 => response.ResponseError = <<>>
        /\ (pc[t] = "track_store" /\ f.handler # NoHandler
            /\ f.response[1].ResponseError # <<>>)
           => f.track \in {"totalErrorResponses", "totalErrorNotifications"}

\* C27: ErrorMessageForCode returns "Parse error", "Invalid request",
\* "Method not found", "Invalid params" and "Internal error" for -32700,
\* -32600, -32601, -32602 and -32603, "Server error" for every code from
\* -32099 to -32000, both included, and "Unknown error" for every other
\* code, 0, -32100 and -31999 among them.
C27_MessageOfEachCode ==
    \A t \in Callers :
        LET f == frame[t] IN
        (Returned(t) /\ f.api = "ErrorMessageForCode")
        => /\ f.code = -32700 => f.errMessage = "Parse error"
           /\ f.code = -32600 => f.errMessage = "Invalid request"
           /\ f.code = -32601 => f.errMessage = "Method not found"
           /\ f.code = -32602 => f.errMessage = "Invalid params"
           /\ f.code = -32603 => f.errMessage = "Internal error"
           /\ (-32099 <= f.code /\ f.code <= -32000)
              => f.errMessage = "Server error"
           /\ (/\ f.code \notin {-32700, -32600, -32601, -32602, -32603}
               /\ (f.code < -32099 \/ f.code > -32000))
              => f.errMessage = "Unknown error"

\* C27 witness: ErrorMessageForCode has returned "Server error" for the
\* lower end of the band.
C27_Witness ==
    \E t \in Callers :
        /\ Returned(t) /\ frame[t].api = "ErrorMessageForCode"
        /\ frame[t].code = -32099
        /\ frame[t].errMessage = "Server error"

\* C28: NewErrorResponse(id, code, msg), and request.NewErrorResponse(code,
\* msg) with the id of the request, yields a response whose message is
\* ErrorMessageForCode(code) when msg is empty and msg otherwise; its code
\* and its id are those passed in.
C28_EmptyMessageReplaced ==
    \A t \in Callers :
        LET f == frame[t] IN
        (pc[t] \in {"built", "encoded", "returned"}
         /\ f.api \in {"NewErrorResponse", "request.NewErrorResponse"})
        => /\ Len(f.response) = 1
           /\ f.response[1].ResponseError # <<>>
           /\ ErrorMessage(f.response[1]) =
                 (IF f.message = "" THEN ErrorMessageForCode(f.code)
                  ELSE f.message)
           /\ f.response[1].ResponseError[1].Code = f.code
           /\ Id(f.response[1]) = f.id
           /\ f.api = "request.NewErrorResponse"
              => Id(f.response[1]) = f.request[1].RequestId

\* C28 witness: request.NewErrorResponse(-32050, "") has built a response
\* with the message "Server error" and the id of the request.
C28_Witness ==
    \E t \in Callers :
        /\ pc[t] = "built" /\ frame[t].api = "request.NewErrorResponse"
        /\ frame[t].request[1].RequestId = "id2"
        /\ frame[t].code = -32050 /\ frame[t].message = ""
        /\ ErrorMessage(frame[t].response[1]) = "Server error"
        /\ Id(frame[t].response[1]) = "id2"

\* Two Response values agree in what a round trip must keep: the id, the
\* classification as success or error, the result, and the code and the
\* message of the error.
SameResponse(a, b) ==
    /\ a # <<>> /\ b # <<>>
    /\ Id(a[1]) = Id(b[1])
    /\ (ErrorCode(a[1]) = Success) <=> (ErrorCode(b[1]) = Success)
    /\ a[1].ResponseResult = b[1].ResponseResult
    /\ ErrorCode(a[1]) = ErrorCode(b[1])
    /\ ErrorMessage(a[1]) = ErrorMessage(b[1])

\* The caller encoded a response built by NewSuccessResponse or
\* NewErrorResponse, or a Responses value of such responses.
EncodedByCaller(t) ==
    frame[t].api \in {"NewSuccessResponse", "NewErrorResponse",
                      "request.NewErrorResponse", "NewServerErrorResponse",
                      "Responses.String"}

\* C29: round trip: for every response built by NewSuccessResponse or
\* NewErrorResponse, and for every Responses list of them, decoding the
\* encoded text with NewResponsesFromJSON yields, without an error, as many
\* responses, in the same order, each with the same id, the same
\* classification, and the same result or error code and message.
C29_RoundTrip ==
    \A t \in Callers :
        LET f == frame[t] IN
        /\ (pc[t] = "crashed") => ~EncodedByCaller(t)
        /\ (Returned(t) /\ EncodedByCaller(t))
           => /\ ~f.decoded.err
              /\ Len(f.decoded.responses.items) = Len(f.built.items)
              /\ \A k \in 1..Len(f.built.items) :
                    k <= Len(f.decoded.responses.items)
                    => SameResponse(f.built.items[k],
                                    f.decoded.responses.items[k])

\* A text that is a JSON object, or an array all of whose elements are JSON
\* objects: what the encoding of a response, or of responses, can be.
EncodesResponses(text) ==
    \/ text.kind = "object"
    \/ /\ text.kind = "array"
       /\ \A k \in 1..Len(text.items) : text.items[k].kind = "object"

\* C30: for every input that is not the encoding of a response object or of
\* an array of response objects (invalid JSON, an array of non-objects and
\* the empty input among them) NewResponsesFromJSON returns nil responses
\* and a non-nil error, and does not panic.
C30_OtherInputsRejected ==
    \A t \in Callers :
        LET f == frame[t] IN
        (f.api = "NewResponsesFromJSON" /\ ~EncodesResponses(f.data))
        => /\ pc[t] # "crashed"
           /\ Returned(t) => (f.decoded.err /\ f.decoded.responses.isNil)

\* The handlers that panic; they differ only in the value given to panic.
PanickingHandlers == {"forcePanic", "panicWithError", "panicWithNil"}

\* C31: the response produced for a panicking handler does not depend on
\* the value given to panic: whatever that value, the call goes on with the
\* response ServerError, "Server error" and the id of the request, and
\* counts it in totalErrorResponses (totalErrorNotifications for a
\* notification); no value makes the call end otherwise.
C31_PanicValueDiscarded ==
    \A t \in Callers :
        LET f == frame[t] IN
        /\ (pc[t] = "track_store" /\ f.handler \in PanickingHandlers)
           => /\ f.response =
                    <<NewErrorResponse(f.request[1].RequestId, ServerError,
                                       "Server error")>>
              /\ f.track = (IF f.request[1].RequestId = Nil
                            THEN "totalErrorNotifications"
                            ELSE "totalErrorResponses")
        /\ pc[t] = "crashed" => f.handler \notin PanickingHandlers

\* C32: HandleRequest and Handle return normally and never let a fault
\* reach the caller, whatever the handler does: no call ends in a panic
\* that leaves the server.
C32_NoFaultPropagates ==
    \A t \in Callers : pc[t] # "crashed"

\* How many elements of a sequence of request objects carry an id.
RECURSIVE CountWithId(_)
CountWithId(items) ==
    IF items = <<>> THEN 0
    ELSE (IF Head(items).id # Nil THEN 1 ELSE 0) + CountWithId(Tail(items))

\* C33: whether a dispatched request produces a returned response is
\* decided by the id of the request alone: a call that has returned holds
\* one response for each of its requests with an id and none for its
\* notifications, also when the handler answers with a Response whose id
\* is not the id of the request.
C33_ReturnedByRequestId ==
    \A t \in Callers :
        LET f == frame[t]
            items == ItemsOf(f)
        IN
        (Returned(t) /\ f.api \in {"Handle", "HandleRequest"}
         /\ items # <<>>
         /\ \A i \in 1..Len(items) : items[i].kind = "object")
        => Len(f.ret) = CountWithId(items)

\* C34: in every reachable state under concurrent callers totalPayloads is
\* at most the number of calls started so far (calls counts every call, so
\* it bounds the Handle, HandleWithState and HandleRequest calls): the
\* decrement of handleSingle never meets a stored 0 and wraps the counter.
C34_PayloadsNeverExceedCalls ==
    totalPayloads <= calls

\* C35: in every reachable state, under any interleaving of concurrent
\* callers, currentActiveRequests <= totalRequests: no handler invocation
\* is in the gauge without being in totalRequests.
C35_ActiveWithinTotal ==
    currentActiveRequests <= totalRequests

\* The number of items a payload is processed as: one per element of a
\* non-empty batch, one for an empty batch, one for a lone payload.
ItemCount(payload) ==
    IF payload.kind = "array" /\ payload.items # <<>>
    THEN Len(payload.items) ELSE 1

\* C36: outcome conservation for sequential Handle calls: when a call has
\* returned, the four outcome counters together have grown by the number
\* of items of its payload, so every item is counted in exactly one of
\* them.
C36_OutcomesConserved ==
    \A t \in Callers :
        (Returned(t) /\ ViaHandle(t))
        => Delta("totalSuccessResponses") + Delta("totalErrorResponses")
           + Delta("totalSuccessNotifications")
           + Delta("totalErrorNotifications")
           = ItemCount(frame[t].jsonRequest)

\* C36 witness: Handle has returned for a batch of two elements, one
\* counted as an error response and one as a success notification.
C36_Witness ==
    \E t \in Callers :
        /\ Returned(t) /\ frame[t].api = "Handle"
        /\ frame[t].jsonRequest.kind = "array"
        /\ Len(frame[t].jsonRequest.items) = 2
        /\ Delta("totalErrorResponses") = 1
        /\ Delta("totalSuccessNotifications") = 1

\* The handlers a sequence of elements invokes, in the order of the
\* elements, when each element is dispatched as it is alone.
RECURSIVE AloneHandlers(_, _)
AloneHandlers(items, state) ==
    IF items = <<>> THEN <<>>
    ELSE (IF Alone(Head(items), state).invocations = 1
          THEN <<requestHandlers[Head(items).method]>> ELSE <<>>)
         \o AloneHandlers(Tail(items), state)

C39_EmptyBatchOnlyForEmptyArray ==
    \A t \in Callers :
        LET f == frame[t] IN
        (Returned(t) /\ ViaHandle(t))
        => /\ (\E k \in 1..Len(f.ret) :
                  f.ret[k].ResponseError # <<>>
                  /\ f.ret[k].ResponseError[1].Message = "Batch is empty.")
              => f.jsonRequest = Array(<<>>)
           /\ f.jsonRequest.kind # "array"
              => (~f.isBatch /\ f.rawMessage = f.jsonRequest)

\* Caller t has started a Handle, HandleWithState or HandleRequest call.
Started(t) ==
    pc[t] # "idle" /\ Dispatching(t)

\* C38: if every handler invocation eventually returns or panics, every
\* Handle, HandleWithState and HandleRequest call eventually returns, a
\* call never invokes more handlers than its payload has items, and
\* currentActiveRequests eventually is 0 and stays 0.
C38_CallsReturnAndGaugeSettles ==
    /\ \A t \in Callers : Started(t) ~> Returned(t)
    /\ [](\A t \in Callers :
             Started(t)
             => Len(frame[t].handled) <= Len(ItemsOf(frame[t])))
    /\ <>[](currentActiveRequests = 0)

====
